---- MODULE Spec2Model ----
(***************************************************************************)
(* pdf_extract_and_translate: the translation components (language        *)
(* detector wrapper, translator wrapper, translation manager) and the      *)
(* extractor registry, the extractors and the command line, as state      *)
(* machines over their calls.                                              *)
(*                                                                         *)
(* The detector, the translator and the manager keep no mutable field      *)
(* after construction, so one behaviour of the translation specification   *)
(* is one call on freshly constructed objects: the arguments and the       *)
(* outcomes of the external collaborators (the langdetect model, the       *)
(* deep-translator backend) are chosen when the call is made.  The         *)
(* registry keeps its dict across calls; its specification runs sequences  *)
(* of register / get_available_extractors / create_extractor.              *)
(*                                                                         *)
(* An extractor keeps no mutable field after construction: its             *)
(* specification is a construction followed by one call, with the file     *)
(* system, the OCR engine and the cloud service answering as they can.     *)
(* run_cli is one action: each of its runs is fixed by what the user, the  *)
(* extractor, the translation manager and the output file do.              *)
(*                                                                         *)
(* The program specification runs any of these from the initial state.     *)
(* The detector-process specification imports language_detector, which     *)
(* sets langdetect's seed, and then calls detect several times in the      *)
(* same process.                                                           *)
(***************************************************************************)
EXTENDS Integers, Sequences, FiniteSets, TLC

VARIABLES
    op,               \* the operation of the last call ("none" before any call)
    args,             \* its arguments, as Python values
    out,              \* its outcome: Return(value) or Raise(exception)
    detect_calls,     \* calls it made to LangDetectDetector.detect, with outcomes
    model_calls,      \* calls that reached langdetect's detect(), with outcomes
    translate_calls,  \* calls it made to DeepTranslatorWrapper.translate
    backend_calls,    \* calls that reached the GoogleTranslator backend
    line_log,         \* auto_translate_multilingual: one entry per input line
    extractors,       \* TextExtractorRegistry._extractors, in insertion order
    ctor_calls,       \* constructor calls of the last call: class and outcome
    reg_log,          \* history: the names passed to register, in call order
    created,          \* history: the instances create_extractor returned
    printed,          \* the lines the last call printed
    extractor,        \* the extractor object under test (NoObject before __init__)
    io_calls,         \* calls the last call made to files, OCR, cloud and prompts
    seed,             \* langdetect's DetectorFactory.seed
    profile,          \* langdetect's answer to each text under a fixed seed
    detect_log        \* history: the detect calls of this process, with outcomes

vars == <<op, args, out, detect_calls, model_calls, translate_calls,
          backend_calls, line_log, extractors, ctor_calls, reg_log, created,
          printed, extractor, io_calls, seed, profile, detect_log>>

translationVars ==
    <<detect_calls, model_calls, translate_calls, backend_calls, line_log>>
registryVars == <<extractors, ctor_calls, reg_log, created, printed>>
extractorVars == <<extractor, io_calls>>
detectorVars == <<seed, profile, detect_log>>

----------------------------------------------------------------------------
(* Bounds *)

MaxLen == 4        \* longest text argument, in characters
MaxRegs == 3       \* register calls in one behaviour
MaxCreates == 2    \* instances create_extractor returns in one behaviour
MaxDetects == 3    \* detect calls of one process

----------------------------------------------------------------------------
(* Python values: None, an int, or a str (a sequence of characters) *)

None == [t |-> "None", s |-> <<>>, n |-> 0]
PyInt(i) == [t |-> "int", s |-> <<>>, n |-> i]
PyStr(chars) == [t |-> "str", s |-> chars, n |-> 0]

IsStr(v) == v.t = "str"

\* truth value of a Python object, as `not x` sees it
Truthy(v) ==
    CASE v.t = "None" -> FALSE
      [] v.t = "int" -> v.n # 0
      [] v.t = "str" -> v.s # <<>>

\* type(x).__name__
TypeName(v) == IF v.t = "None" THEN "NoneType" ELSE v.t

----------------------------------------------------------------------------
(* str methods *)

\* the characters str.strip() removes and str.isspace() accepts
Whitespace == {" ", "\t", "\n", "\r"}

RECURSIVE lstrip(_)
lstrip(s) == IF s # <<>> /\ Head(s) \in Whitespace THEN lstrip(Tail(s)) ELSE s

RECURSIVE rstrip(_)
rstrip(s) ==
    IF s # <<>> /\ s[Len(s)] \in Whitespace
    THEN rstrip(SubSeq(s, 1, Len(s) - 1))
    ELSE s

strip(s) == rstrip(lstrip(s))

\* str.splitlines(): "\n", "\r" and "\r\n" end a line; no empty last line
RECURSIVE SplitFrom(_, _, _)
SplitFrom(s, i, cur) ==
    IF i > Len(s) THEN (IF cur = <<>> THEN <<>> ELSE <<cur>>)
    ELSE IF s[i] = "\n" THEN <<cur>> \o SplitFrom(s, i + 1, <<>>)
    ELSE IF s[i] = "\r"
         THEN <<cur>> \o SplitFrom(s, IF i < Len(s) /\ s[i + 1] = "\n"
                                      THEN i + 2 ELSE i + 1, <<>>)
    ELSE SplitFrom(s, i + 1, Append(cur, s[i]))

splitlines(s) == SplitFrom(s, 1, <<>>)

\* a join that ends every line with "\n", as writelines of terminated
\* lines would
RECURSIVE join_terminated(_)
join_terminated(lines) ==
    IF lines = <<>> THEN <<>>
    ELSE lines[1] \o <<"\n">> \o join_terminated(Tail(lines))

\* '\n'.join(lines)
RECURSIVE join(_)
join(lines) ==
    IF lines = <<>> THEN <<>>
    ELSE IF Len(lines) = 1 THEN lines[1]
    ELSE lines[1] \o <<"\n">> \o join(Tail(lines))

UpperCase == <<"A", "B", "C", "D", "E", "F", "G", "H", "I", "J", "K", "L", "M",
               "N", "O", "P", "Q", "R", "S", "T", "U", "V", "W", "X", "Y", "Z">>
LowerCase == <<"a", "b", "c", "d", "e", "f", "g", "h", "i", "j", "k", "l", "m",
               "n", "o", "p", "q", "r", "s", "t", "u", "v", "w", "x", "y", "z">>

LowerChar(c) ==
    IF \E i \in 1..26 : UpperCase[i] = c
    THEN LowerCase[CHOOSE i \in 1..26 : UpperCase[i] = c]
    ELSE c

\* str.lower()
lower(s) == [i \in 1..Len(s) |-> LowerChar(s[i])]

UpperChar(c) ==
    IF \E i \in 1..26 : LowerCase[i] = c
    THEN UpperCase[CHOOSE i \in 1..26 : LowerCase[i] = c]
    ELSE c

\* str.upper()
upper(s) == [i \in 1..Len(s) |-> UpperChar(s[i])]

\* `sub in s` for strings
Contains(s, sub) ==
    \E i \in 0..(Len(s) - Len(sub)) : SubSeq(s, i + 1, i + Len(sub)) = sub

----------------------------------------------------------------------------
(* Outcomes and exceptions *)

Return(v) == [k |-> "return", v |-> v]
Raise(e) == [k |-> "raise", e |-> e]

NoCause == [cls |-> "none"]

\* an exception: its class, its message (a template and the values
\* formatted into it) and the exception it was raised from
Exc(cls, msg, fargs, cause) ==
    [cls |-> cls, msg |-> msg, fargs |-> fargs, cause |-> cause]

ValueError(msg, fargs, cause) == Exc("ValueError", msg, fargs, cause)

\* str(e)
StrOf(e) == [msg |-> e.msg, fargs |-> e.fargs]

\* the text of an exception built by an external library from one string
MessageText(e) == e.fargs[1].s

\* what an operation did: its outcome and the calls it made, in call order
Trace(o, dc, mc, tc, bc) ==
    [out |-> o, detect_calls |-> dc, model_calls |-> mc,
     translate_calls |-> tc, backend_calls |-> bc, line_log |-> <<>>]

NotInvoked == [k |-> "not invoked"]

\* no object: the value of a reference before its constructor has run
NoObject == [cls |-> "none"]

----------------------------------------------------------------------------
(* External collaborators: what they can answer *)

en == <<"e", "n">>
es == <<"e", "s">>

\* langdetect.detect(text): a language code, a LangDetectException when the
\* text has no features, or another failure of the library
DetectedCodes == {en, es, <<>>}

LangDetectException ==
    Exc("LangDetectException", "{0}", <<PyStr(<<"n", "o">>)>>, NoCause)
RuntimeError ==
    Exc("RuntimeError", "{0}", <<PyStr(<<"i", "o">>)>>, NoCause)

ModelOutcomes ==
    {Return(PyStr(c)) : c \in DetectedCodes}
        \cup {Raise(LangDetectException), Raise(RuntimeError)}

\* GoogleTranslator(source, target).translate(text): a string (possibly
\* blank or of several lines) or an exception with some message
BackendTexts == {<<"b">>, <<>>, <<"b", "\n", "b">>}
BackendMessages == {<<"L", "a", "n", "g">>, <<"l", "a", "n">>, <<"n", "e", "t">>}

BackendError(m) == Exc("BackendError", "{0}", <<PyStr(m)>>, NoCause)

BackendOutcomes ==
    {Return(PyStr(s)) : s \in BackendTexts}
        \cup {Raise(BackendError(m)) : m \in BackendMessages}

\* the answers of the detection model and, when the model answers with a
\* code, of the translation backend
Scenarios ==
    {[m |-> m, b |-> NotInvoked] : m \in {o \in ModelOutcomes : o.k = "raise"}}
        \cup {[m |-> m, b |-> b] : m \in {o \in ModelOutcomes : o.k = "return"},
                                   b \in BackendOutcomes}

----------------------------------------------------------------------------
(* LangDetectDetector.detect *)

NoError == [k |-> "ok"]

\* the validation of text: the ValueError it raises, or NoError
DetectorTextCheck(text) ==
    IF text = None
    THEN Raise(ValueError("Text cannot be None", <<>>, NoCause))
    ELSE IF ~IsStr(text)
    THEN Raise(ValueError("Text must be a string, got {0}",
                          <<TypeName(text)>>, NoCause))
    ELSE IF strip(text.s) = <<>>
    THEN Raise(ValueError("Text cannot be empty or contain only whitespace",
                          <<>>, NoCause))
    ELSE NoError

\* an except clause that reports a model failure as blank text
DetectorExcept_blank(m) ==
    IF m.k = "raise" /\ m.e.cls = "LangDetectException"
    THEN Raise(ValueError("Text cannot be empty or contain only whitespace",
                          <<>>, NoCause))
    ELSE m

\* the try/except around langdetect's detect(): m is what the model answered
DetectorExcept(m) ==
    IF m.k = "raise" /\ m.e.cls = "LangDetectException"
    THEN Raise(ValueError("Could not detect language: {0}",
                          <<StrOf(m.e)>>, m.e))
    ELSE m

\* a detect that asks the model a second time when the first answer is a
\* failure
detect_retry(text, m) ==
    LET invalid == DetectorTextCheck(text)
    IN  IF invalid.k = "raise"
        THEN [out |-> invalid, model_calls |-> <<>>]
        ELSE IF m.k = "raise"
        THEN [out |-> DetectorExcept(m),
              model_calls |-> <<[text |-> strip(text.s), out |-> m],
                                [text |-> strip(text.s), out |-> m]>>]
        ELSE [out |-> DetectorExcept(m),
              model_calls |-> <<[text |-> strip(text.s), out |-> m]>>]

\* m: what langdetect's detect() answers if it is reached
detect(text, m) ==
    LET invalid == DetectorTextCheck(text)
    IN  IF invalid.k = "raise"
        THEN [out |-> invalid, model_calls |-> <<>>]
        ELSE [out |-> DetectorExcept(m),
              model_calls |-> <<[text |-> strip(text.s), out |-> m]>>]

----------------------------------------------------------------------------
(* DeepTranslatorWrapper.translate *)

\* a validation that rejects the empty string but not whitespace
TranslatorTextCheck_nonempty(text) ==
    IF text = None
    THEN Raise(ValueError("Text cannot be None", <<>>, NoCause))
    ELSE IF ~IsStr(text)
    THEN Raise(ValueError("Text must be a string, got {0}",
                          <<TypeName(text)>>, NoCause))
    ELSE IF text.s = <<>>
    THEN Raise(ValueError("Text cannot be empty or contain only whitespace",
                          <<>>, NoCause))
    ELSE NoError

\* the validation of text: the ValueError it raises, or NoError
TranslatorTextCheck(text) ==
    IF text = None
    THEN Raise(ValueError("Text cannot be None", <<>>, NoCause))
    ELSE IF ~IsStr(text)
    THEN Raise(ValueError("Text must be a string, got {0}",
                          <<TypeName(text)>>, NoCause))
    ELSE IF strip(text.s) = <<>>
    THEN Raise(ValueError("Text cannot be empty or contain only whitespace",
                          <<>>, NoCause))
    ELSE NoError

\* the validation of the language codes
TranslatorLangCheck(source_lang, target_lang) ==
    IF ~Truthy(source_lang) \/ ~IsStr(source_lang)
    THEN Raise(ValueError("Source language code must be a non-empty string",
                          <<>>, NoCause))
    ELSE IF ~Truthy(target_lang) \/ ~IsStr(target_lang)
    THEN Raise(ValueError("Target language code must be a non-empty string",
                          <<>>, NoCause))
    ELSE NoError

\* a test on str(e) without lower()
IsLanguageError_casesensitive(e) ==
    LET error_msg == MessageText(e)
    IN  Contains(error_msg, <<"l", "a", "n", "g", "u", "a", "g", "e">>)
            \/ Contains(error_msg, <<"l", "a", "n", "g">>)

\* the test of the except clause: str(e).lower() mentions a language
IsLanguageError(e) ==
    LET error_msg == lower(MessageText(e))
    IN  Contains(error_msg, <<"l", "a", "n", "g", "u", "a", "g", "e">>)
            \/ Contains(error_msg, <<"l", "a", "n", "g">>)

\* the try/except around the backend: b is what the backend answered
TranslatorExcept(b, source_lang, target_lang) ==
    IF b.k = "raise" /\ IsLanguageError(b.e)
    THEN Raise(ValueError(
             "Invalid language code. Source: {0}, Target: {1}. Error: {2}",
             <<source_lang, target_lang, StrOf(b.e)>>, b.e))
    ELSE b

\* b: what the backend answers if it is reached
translate(text, source_lang, target_lang, b) ==
    LET invalid_text == TranslatorTextCheck(text)
        invalid_lang == TranslatorLangCheck(source_lang, target_lang)
    IN  IF invalid_text.k = "raise"
        THEN [out |-> invalid_text, backend_calls |-> <<>>]
        ELSE IF invalid_lang.k = "raise"
        THEN [out |-> invalid_lang, backend_calls |-> <<>>]
        ELSE [out |-> TranslatorExcept(b, source_lang, target_lang),
              backend_calls |->
                  <<[source |-> source_lang, target |-> target_lang,
                     text |-> strip(text.s), out |-> b]>>]

----------------------------------------------------------------------------
(* TranslationManager *)

\* a call made to a collaborator of the manager, with its outcome
DetectCall(text, o) == [text |-> text, out |-> o]
TranslateCall(text, source_lang, target_lang, o) ==
    [text |-> text, source_lang |-> source_lang,
     target_lang |-> target_lang, out |-> o]

\* auto_translate: the validation of text
ManagerTextCheck(text) ==
    IF text = None
    THEN Raise(ValueError("Text cannot be None", <<>>, NoCause))
    ELSE IF ~IsStr(text)
    THEN Raise(ValueError("Text must be a string, got {0}",
                          <<TypeName(text)>>, NoCause))
    ELSE IF strip(text.s) = <<>>
    THEN Raise(ValueError("Text cannot be empty or contain only whitespace",
                          <<>>, NoCause))
    ELSE NoError

\* auto_translate: the validation of target_lang
ManagerLangCheck(target_lang) ==
    IF target_lang = None
    THEN Raise(ValueError("Target language cannot be None", <<>>, NoCause))
    ELSE IF ~IsStr(target_lang)
    THEN Raise(ValueError("Target language must be a string, got {0}",
                          <<TypeName(target_lang)>>, NoCause))
    ELSE IF ~Truthy(target_lang) \/ strip(target_lang.s) = <<>>
    THEN Raise(ValueError("Target language cannot be empty", <<>>, NoCause))
    ELSE NoError

\* a detection step that falls back to English instead of failing
DetectionExcept_default(d) ==
    IF d.k = "raise" THEN Return(PyStr(en)) ELSE d

\* auto_translate, step 1: the try/except around detector.detect;
\* d is the outcome of the detector
DetectionExcept(d) ==
    IF d.k = "raise" /\ d.e.cls = "ValueError"
    THEN Raise(ValueError("Failed to detect source language: {0}",
                          <<StrOf(d.e)>>, d.e))
    ELSE d

\* a translation step that degrades to the untranslated text
TranslationExcept_degrade(t, stripped_text, source_lang, target_lang) ==
    IF t.k = "raise" THEN Return(stripped_text) ELSE t

\* auto_translate, step 2: the try/except around translator.translate;
\* t is the outcome of the translator
TranslationExcept(t, stripped_text, source_lang, target_lang) ==
    IF t.k = "raise"
    THEN Raise(ValueError("Failed to translate from {0} to {1}: {2}",
                          <<source_lang, target_lang, StrOf(t.e)>>, t.e))
    ELSE t

\* an auto_translate with the shortcut of the line-by-line variant: a text
\* detected as the target language is returned without a translation
auto_translate_shortcut(text, target_lang, m, b) ==
    LET invalid_text == ManagerTextCheck(text)
        invalid_lang == ManagerLangCheck(target_lang)
    IN  IF invalid_text.k = "raise"
        THEN Trace(invalid_text, <<>>, <<>>, <<>>, <<>>)
        ELSE IF invalid_lang.k = "raise"
        THEN Trace(invalid_lang, <<>>, <<>>, <<>>, <<>>)
        ELSE
            LET stripped_text == PyStr(strip(text.s))
                d == detect(stripped_text, m)
                dc == <<DetectCall(stripped_text, d.out)>>
                step1 == DetectionExcept(d.out)
            IN  IF step1.k = "raise"
                THEN Trace(step1, dc, d.model_calls, <<>>, <<>>)
                ELSE IF step1.v = PyStr(strip(target_lang.s))
                THEN Trace(Return(text), dc, d.model_calls, <<>>, <<>>)
                ELSE
                    LET source_lang == step1.v
                        target == PyStr(strip(target_lang.s))
                        t == translate(stripped_text, source_lang, target, b)
                    IN  Trace(TranslationExcept(t.out, stripped_text,
                                                source_lang, target_lang),
                              dc, d.model_calls,
                              <<TranslateCall(stripped_text, source_lang,
                                              target, t.out)>>,
                              t.backend_calls)

\* m, b: what the detection model and the translation backend answer if
\* they are reached
auto_translate(text, target_lang, m, b) ==
    LET invalid_text == ManagerTextCheck(text)
        invalid_lang == ManagerLangCheck(target_lang)
    IN  IF invalid_text.k = "raise"
        THEN Trace(invalid_text, <<>>, <<>>, <<>>, <<>>)
        ELSE IF invalid_lang.k = "raise"
        THEN Trace(invalid_lang, <<>>, <<>>, <<>>, <<>>)
        ELSE
            LET stripped_text == PyStr(strip(text.s))
                d == detect(stripped_text, m)
                dc == <<DetectCall(stripped_text, d.out)>>
                step1 == DetectionExcept(d.out)
            IN  IF step1.k = "raise"
                THEN Trace(step1, dc, d.model_calls, <<>>, <<>>)
                ELSE
                    LET source_lang == step1.v
                        target == PyStr(strip(target_lang.s))
                        t == translate(stripped_text, source_lang, target, b)
                    IN  Trace(TranslationExcept(t.out, stripped_text,
                                                source_lang, target_lang),
                              dc, d.model_calls,
                              <<TranslateCall(stripped_text, source_lang,
                                              target, t.out)>>,
                              t.backend_calls)

\* auto_translate_multilingual: the validation of both arguments
MultilingualCheck(text, target_lang) ==
    IF text = None
    THEN Raise(ValueError("Text cannot be None", <<>>, NoCause))
    ELSE IF ~IsStr(text)
    THEN Raise(ValueError("Text must be a string, got {0}",
                          <<TypeName(text)>>, NoCause))
    ELSE IF strip(text.s) = <<>>
    THEN Raise(ValueError("Text cannot be empty or contain only whitespace",
                          <<>>, NoCause))
    ELSE IF target_lang = None \/ ~IsStr(target_lang)
                \/ strip(target_lang.s) = <<>>
    THEN Raise(ValueError("Target language must be a non-empty string",
                          <<>>, NoCause))
    ELSE NoError

\* a fallback that keeps the stripped line instead of the original line
LineExcept_stripped(attempt, line) ==
    IF attempt.k = "raise" THEN strip(line) ELSE attempt.v

\* the except clause of the loop: attempt is the outcome of the try block
\* for this line, the result is the line appended to translated_lines
LineExcept(attempt, line) ==
    IF attempt.k = "raise" THEN line ELSE attempt.v

\* a loop that sends every line to the translator
AlreadyInTarget_never(source_lang, target_lang) == FALSE

\* the choice between keeping a line and translating it: TRUE when the
\* detected language is the target language
AlreadyInTarget(source_lang, target_lang) ==
    source_lang = PyStr(strip(target_lang.s))

\* a loop that hands the line to the detector and to the translator with
\* its indentation
StrippedLine_raw(line) == PyStr(line)

\* line.strip(), the text the loop passes to detect and to translate
StrippedLine(line) == PyStr(strip(line))

\* the body of the loop for one line: the line appended to
\* translated_lines and the calls made
TranslateLine(line, target_lang, m, b) ==
    IF strip(line) = <<>>
    THEN [line |-> line, detect_calls |-> <<>>, model_calls |-> <<>>,
          translate_calls |-> <<>>, backend_calls |-> <<>>]
    ELSE
        LET stripped_line == StrippedLine(line)
            d == detect(stripped_line, m)
            dc == <<DetectCall(stripped_line, d.out)>>
        IN  IF d.out.k = "raise"
            THEN [line |-> LineExcept(d.out, line), detect_calls |-> dc,
                  model_calls |-> d.model_calls,
                  translate_calls |-> <<>>, backend_calls |-> <<>>]
            ELSE IF AlreadyInTarget(d.out.v, target_lang)
            THEN [line |-> line, detect_calls |-> dc,
                  model_calls |-> d.model_calls,
                  translate_calls |-> <<>>, backend_calls |-> <<>>]
            ELSE
                LET target == PyStr(strip(target_lang.s))
                    t == translate(stripped_line, d.out.v, target, b)
                IN  [line |-> LineExcept(IF t.out.k = "return"
                                         THEN Return(t.out.v.s) ELSE t.out,
                                         line),
                     detect_calls |-> dc,
                     model_calls |-> d.model_calls,
                     translate_calls |->
                         <<TranslateCall(stripped_line, d.out.v, target, t.out)>>,
                     backend_calls |-> t.backend_calls]

\* what the detection model and the backend may answer for one line: they
\* are reached only for a line that is not blank
LineScenarios(line) ==
    IF strip(line) = <<>>
    THEN {[m |-> NotInvoked, b |-> NotInvoked]}
    ELSE Scenarios

\* the loop over lines[i], lines[i + 1], ... in order: every run of it that
\* the answers of the detection model and of the backend allow
RECURSIVE TranslateLines(_, _, _)
TranslateLines(lines, i, target_lang) ==
    IF i > Len(lines)
    THEN {[lines |-> <<>>, line_log |-> <<>>, detect_calls |-> <<>>,
           model_calls |-> <<>>, translate_calls |-> <<>>,
           backend_calls |-> <<>>]}
    ELSE {[lines |-> <<first.line>> \o rest.lines,
           line_log |->
               <<[input |-> first.input, output |-> first.line,
                  detect_calls |-> first.detect_calls,
                  translate_calls |-> first.translate_calls]>>
                   \o rest.line_log,
           detect_calls |-> first.detect_calls \o rest.detect_calls,
           model_calls |-> first.model_calls \o rest.model_calls,
           translate_calls |-> first.translate_calls \o rest.translate_calls,
           backend_calls |-> first.backend_calls \o rest.backend_calls] :
              first \in {[input |-> lines[i]]
                             @@ TranslateLine(lines[i], target_lang, e.m, e.b) :
                         e \in LineScenarios(lines[i])},
              rest \in TranslateLines(lines, i + 1, target_lang)}

\* every outcome of auto_translate_multilingual(text, target_lang) that the
\* collaborators allow
auto_translate_multilingual(text, target_lang) ==
    LET invalid == MultilingualCheck(text, target_lang)
    IN  IF invalid.k = "raise"
        THEN {Trace(invalid, <<>>, <<>>, <<>>, <<>>)}
        ELSE {[out |-> Return(PyStr(join(r.lines))),
               detect_calls |-> r.detect_calls,
               model_calls |-> r.model_calls,
               translate_calls |-> r.translate_calls,
               backend_calls |-> r.backend_calls,
               line_log |-> r.line_log] :
                  r \in TranslateLines(splitlines(text.s), 1, target_lang)}

----------------------------------------------------------------------------
(* DeepTranslatorWrapper.supports_language *)

SUPPORTED_LANGUAGES ==
    {<<"e", "n">>, <<"e", "s">>, <<"f", "r">>, <<"d", "e">>, <<"i", "t">>,
     <<"p", "t">>, <<"n", "l">>, <<"p", "l">>, <<"r", "u">>, <<"j", "a">>,
     <<"k", "o">>, <<"z", "h", "-", "C", "N">>, <<"z", "h", "-", "T", "W">>,
     <<"a", "r">>, <<"h", "i">>, <<"t", "r">>, <<"v", "i">>, <<"t", "h">>,
     <<"s", "v">>, <<"d", "a">>, <<"f", "i">>, <<"n", "o">>, <<"c", "s">>,
     <<"e", "l">>, <<"h", "e">>, <<"i", "d">>, <<"m", "s">>, <<"r", "o">>,
     <<"u", "k">>, <<"a", "u", "t", "o">>}

supports_language(lang_code) ==
    IF ~Truthy(lang_code) \/ ~IsStr(lang_code)
    THEN Return(FALSE)
    ELSE Return(lower(lang_code.s) \in SUPPORTED_LANGUAGES)

----------------------------------------------------------------------------
(* TextExtractorRegistry *)

\* _extractors is a dict: its items in insertion order
Keys(d) == [i \in 1..Len(d) |-> d[i].name]
HasKey(d, name) == \E i \in 1..Len(d) : d[i].name = name
Lookup(d, name) == d[CHOOSE i \in 1..Len(d) : d[i].name = name].cls

\* a dict whose d[name] = cls keeps the value of an existing key
SetItem_keepfirst(d, name, cls) ==
    IF HasKey(d, name) THEN d ELSE Append(d, [name |-> name, cls |-> cls])

\* a dict whose d[name] = cls moves an existing key to the end
SetItem_reinsert(d, name, cls) ==
    Append(SelectSeq(d, LAMBDA item : item.name # name),
           [name |-> name, cls |-> cls])

\* d[name] = cls: a new key goes last, an existing key keeps its place
SetItem(d, name, cls) ==
    IF HasKey(d, name)
    THEN [i \in 1..Len(d) |->
             IF d[i].name = name THEN [name |-> name, cls |-> cls] ELSE d[i]]
    ELSE Append(d, [name |-> name, cls |-> cls])

register(d, name, extractor_class) == SetItem(d, name, extractor_class)

get_available_extractors(d) == Return(Keys(d))

\* a create_extractor that forgets a class whose constructor failed
ExtractorsAfterCreate_evict(d, name, c) ==
    IF HasKey(d, name) /\ c.k = "raise"
    THEN SelectSeq(d, LAMBDA entry : entry.name # name)
    ELSE d

\* self._extractors after create_extractor(name): the method reads the dict
\* (lines 45 and 48) and assigns nothing to it
ExtractorsAfterCreate(d, name, c) == d

\* one call of extractor_class(): the class and what its constructor did
CtorCall(cls, c) == [cls |-> cls, out |-> c]

\* print(...): one printed line, as its template and the values formatted in
Line(msg, fargs) == [msg |-> msg, fargs |-> fargs]

\* the two lines create_extractor prints about credentials
CredentialsHint(e) ==
    <<Line("\nError: {0}", <<StrOf(e)>>),
      Line("Please ensure credentials are set in .env file or environment variables.",
           <<>>)>>

\* an except clause that prints the hint and returns None instead of raising
CreateExcept_swallow(c) ==
    [out |-> Return(None), printed |-> CredentialsHint(c.e)]

\* the except clause of create_extractor: c is the exception the constructor
\* raised; a ValueError is printed with a hint, every exception goes on
CreateExcept(c) ==
    IF c.e.cls = "ValueError"
    THEN [out |-> c, printed |-> CredentialsHint(c.e)]
    ELSE [out |-> c, printed |-> <<>>]

\* a create_extractor that builds the first registered extractor when the
\* name is unknown
create_extractor_default(d, name, c) ==
    IF d = <<>>
    THEN [out |-> Raise(ValueError("Unknown extractor: {0}", <<name>>, NoCause)),
          ctor_calls |-> <<>>, printed |-> <<>>]
    ELSE IF ~HasKey(d, name)
    THEN [out |-> Return([instance_of |-> d[1].cls, id |-> 0]),
          ctor_calls |-> <<CtorCall(d[1].cls, NotInvoked)>>, printed |-> <<>>]
    ELSE [out |-> c, ctor_calls |-> <<CtorCall(Lookup(d, name), c)>>,
          printed |-> <<>>]

\* c: what the constructor of the class does if it is reached
create_extractor(d, name, c) ==
    IF ~HasKey(d, name)
    THEN [out |-> Raise(ValueError("Unknown extractor: {0}", <<name>>, NoCause)),
          ctor_calls |-> <<>>, printed |-> <<>>]
    ELSE IF c.k = "raise"
    THEN [out |-> CreateExcept(c).out,
          ctor_calls |-> <<CtorCall(Lookup(d, name), c)>>,
          printed |-> CreateExcept(c).printed]
    ELSE [out |-> c, ctor_calls |-> <<CtorCall(Lookup(d, name), c)>>,
          printed |-> <<>>]

----------------------------------------------------------------------------
(* Extractors: TesseractExtractor and AzureOCRExtractor *)

pdf == <<"p", "d", "f">>
png == <<"p", "n", "g">>
jpg == <<"j", "p", "g">>
jpeg == <<"j", "p", "e", "g">>
bmp == <<"b", "m", "p">>
tiff == <<"t", "i", "f", "f">>
tif == <<"t", "i", "f">>

\* TesseractExtractor.SUPPORTED_FORMATS
TesseractFormats == {pdf, png, jpg, jpeg}

\* AzureOCRExtractor: self.SUPPORTED_FORMATS
AzureFormats == {pdf, png, jpg, jpeg, bmp, tiff, tif}

\* one call to a collaborator: the function, its arguments, its outcome
IoCall(fn, a, o) == [fn |-> fn, args |-> a, out |-> o]

\* an `or` that prefers its second operand
Or_second(a, b) == IF Truthy(b) THEN b ELSE a

\* Python's `a or b`
Or(a, b) == IF Truthy(a) THEN a ELSE b

\* TesseractExtractor(dpi, lang): the outcome of the constructor and the
\* calls it made
TesseractInit(dpi, lang) ==
    [out |-> Return([cls |-> "TesseractExtractor",
                     SUPPORTED_FORMATS |-> TesseractFormats,
                     dpi |-> dpi, lang |-> lang,
                     api_key |-> None, endpoint |-> None]),
     io_calls |-> <<>>]

\* AzureOCRExtractor(api_key, endpoint) in an environment env (after
\* load_dotenv); client: what building DocumentIntelligenceClient does
AzureInit(api_key, endpoint, env, client) ==
    LET key == Or(api_key, env.key)
        ep == Or(endpoint, env.endpoint)
    IN  IF ~Truthy(key) \/ ~Truthy(ep)
        THEN [out |-> Raise(ValueError("Azure credentials not provided", <<>>,
                                       NoCause)),
              io_calls |-> <<>>]
        ELSE IF client.k = "raise"
        THEN [out |-> client,
              io_calls |-> <<IoCall("DocumentIntelligenceClient", <<ep, key>>,
                                    client)>>]
        ELSE [out |-> Return([cls |-> "AzureOCRExtractor",
                              SUPPORTED_FORMATS |-> AzureFormats,
                              dpi |-> None, lang |-> None,
                              api_key |-> key, endpoint |-> ep]),
              io_calls |-> <<IoCall("DocumentIntelligenceClient", <<ep, key>>,
                                    client)>>]

\* a supports_format that compares without lower-casing
supports_format_casesensitive(self, file_format) ==
    IF ~Truthy(file_format) \/ ~IsStr(file_format)
    THEN Return(FALSE)
    ELSE Return(file_format.s \in self.SUPPORTED_FORMATS)

\* supports_format of both extractors
supports_format(self, file_format) ==
    IF ~Truthy(file_format) \/ ~IsStr(file_format)
    THEN Return(FALSE)
    ELSE Return(lower(file_format.s) \in self.SUPPORTED_FORMATS)

\* str.rfind("."), counting from 1; 0 when there is no dot
LastDot(name) ==
    IF \E i \in 1..Len(name) : name[i] = "."
    THEN CHOOSE i \in 1..Len(name) :
             /\ name[i] = "."
             /\ \A j \in (i + 1)..Len(name) : name[j] # "."
    ELSE 0

\* pathlib's Path.suffix of a file name: from the last dot on, unless the
\* dot is the first or the last character
suffix(name) ==
    IF 1 < LastDot(name) /\ LastDot(name) < Len(name)
    THEN SubSeq(name, LastDot(name), Len(name))
    ELSE <<>>

\* str.lstrip('.')
RECURSIVE lstrip_dots(_)
lstrip_dots(s) ==
    IF s # <<>> /\ Head(s) = "." THEN lstrip_dots(Tail(s)) ELSE s

\* file_path.suffix.lower().lstrip('.')
file_ext(name) == lstrip_dots(lower(suffix(name)))

FileNotFoundError(name) ==
    Exc("FileNotFoundError", "File not found: {0}", <<PyStr(name)>>, NoCause)

UnsupportedFormat(self, ext) ==
    ValueError("Unsupported file format: {0}. Supported formats: {1}",
               <<PyStr(ext), self.SUPPORTED_FORMATS>>, NoCause)

\* a format check that lets every extension through
FormatRejected_never(self, name) == FALSE

\* `not self.supports_format(file_ext)` in extract_text
FormatRejected(self, name) ==
    ~supports_format(self, PyStr(file_ext(name))).v

\* an except clause that gives up and returns an empty text
ExtractExcept_empty(msg, e) == Return(PyStr(<<>>))

\* except Exception as e: raise Exception(f"...: {str(e)}") from e
ExtractExcept(msg, e) == Raise(Exc("Exception", msg, <<StrOf(e)>>, e))

\* a loop that keeps the text of every page
KeepPage_all(text) == TRUE

\* `if text.strip():` in the loop over the pages
KeepPage(text) == strip(text) # <<>>

\* the pages whose OCR ran: all n of them, or those up to the first failure
PagesRead(n, ocr) ==
    IF \E i \in 1..n : ocr[i].k = "raise"
    THEN CHOOSE i \in 1..n :
             /\ ocr[i].k = "raise"
             /\ \A j \in 1..(i - 1) : ocr[j].k = "return"
    ELSE n

\* _ocr_image on page i: image_to_string(...) and its outcome
OcrCall(self, i, ocr) == IoCall("image_to_string", <<i, self.lang>>, ocr[i])

\* TesseractExtractor._extract_from_pdf; io.convert: what convert_from_path
\* does (the number of pages it returns), io.ocr[i]: what OCR does on page i
extract_from_pdf(self, name, io) ==
    LET conv == IoCall("convert_from_path", <<PyStr(name), self.dpi>>,
                       io.convert)
    IN  IF io.convert.k = "raise"
        THEN [out |-> ExtractExcept("Failed to extract text from PDF: {0}",
                                    io.convert.e),
              io_calls |-> <<conv>>]
        ELSE
            LET last == PagesRead(io.convert.v, io.ocr)
                calls == <<conv>> \o [i \in 1..last |-> OcrCall(self, i, io.ocr)]
                texts == [i \in 1..io.convert.v |-> strip(io.ocr[i].v)]
            IN  IF last > 0 /\ io.ocr[last].k = "raise"
                THEN [out |-> ExtractExcept(
                                  "Failed to extract text from PDF: {0}",
                                  io.ocr[last].e),
                      io_calls |-> calls]
                ELSE [out |-> Return(PyStr(join(SelectSeq(texts, KeepPage)))),
                      io_calls |-> calls]

\* TesseractExtractor._extract_from_image; io.open: what Image.open does,
\* io.ocr[1]: what OCR does on the image
extract_from_image(self, name, io) ==
    LET open == IoCall("Image.open", <<PyStr(name)>>, io.open)
    IN  IF io.open.k = "raise"
        THEN [out |-> ExtractExcept("Failed to extract text from image: {0}",
                                    io.open.e),
              io_calls |-> <<open>>]
        ELSE IF io.ocr[1].k = "raise"
        THEN [out |-> ExtractExcept("Failed to extract text from image: {0}",
                                    io.ocr[1].e),
              io_calls |-> <<open, OcrCall(self, 1, io.ocr)>>]
        ELSE [out |-> Return(PyStr(strip(io.ocr[1].v))),
              io_calls |-> <<open, OcrCall(self, 1, io.ocr)>>]

\* TesseractExtractor.extract_text on a file name; exists: what
\* file_path.exists() answers
TesseractExtractText(self, name, exists, io) ==
    IF ~exists
    THEN [out |-> Raise(FileNotFoundError(name)), io_calls |-> <<>>]
    ELSE IF FormatRejected(self, name)
    THEN [out |-> Raise(UnsupportedFormat(self, file_ext(name))),
          io_calls |-> <<>>]
    ELSE IF file_ext(name) = pdf
    THEN extract_from_pdf(self, name, io)
    ELSE extract_from_image(self, name, io)

\* an optional attribute: absent (or None), or a list
Missing == [none |-> TRUE, items |-> <<>>]
List(items) == [none |-> FALSE, items |-> items]

\* the text lines of an analysis result, page after page; a page may have
\* no lines
RECURSIVE ResultLines(_, _)
ResultLines(pages, i) ==
    IF i > Len(pages) THEN <<>>
    ELSE pages[i].lines.items \o ResultLines(pages, i + 1)

\* AzureOCRExtractor._extract_text_from_result
extract_text_from_result(result) == join(ResultLines(result.pages.items, 1))

\* AzureOCRExtractor._extract_with_azure_document_intelligence; io.open,
\* io.begin, io.result: what open(), begin_analyze_document() and
\* poller.result() do
extract_with_azure_document_intelligence(self, name, io) ==
    LET open == IoCall("open", <<PyStr(name)>>, io.open)
        begin == IoCall("begin_analyze_document", <<PyStr(name)>>, io.begin)
        result == IoCall("poller.result", <<>>, io.result)
        msg == "Failed to extract text with Azure Document Intelligence: {0}"
    IN  IF io.open.k = "raise"
        THEN [out |-> ExtractExcept(msg, io.open.e), io_calls |-> <<open>>]
        ELSE IF io.begin.k = "raise"
        THEN [out |-> ExtractExcept(msg, io.begin.e),
              io_calls |-> <<open, begin>>]
        ELSE IF io.result.k = "raise"
        THEN [out |-> ExtractExcept(msg, io.result.e),
              io_calls |-> <<open, begin, result>>]
        ELSE [out |-> Return(PyStr(extract_text_from_result(io.result.v))),
              io_calls |-> <<open, begin, result>>]

\* AzureOCRExtractor.extract_text
AzureExtractText(self, name, exists, io) ==
    IF ~exists
    THEN [out |-> Raise(FileNotFoundError(name)), io_calls |-> <<>>]
    ELSE IF FormatRejected(self, name)
    THEN [out |-> Raise(UnsupportedFormat(self, file_ext(name))),
          io_calls |-> <<>>]
    ELSE extract_with_azure_document_intelligence(self, name, io)

----------------------------------------------------------------------------
(* Arguments the callers pass *)

Chars == {"a", " ", "\n", "\r"}

Strings(n) == UNION {[1..k -> Chars] : k \in 0..n}

\* text arguments: None, a non-string, every string up to MaxLen characters
TextArgs == {None, PyInt(5)} \cup {PyStr(s) : s \in Strings(MaxLen)}

\* language-code arguments: None, non-strings, blank and padded codes
LangArgs ==
    {None, PyInt(5), PyStr(<<>>), PyStr(<<" ">>), PyStr(en), PyStr(es),
     PyStr(<<" ", "e", "n">>)}

\* arguments of supports_language: also the allow-list, upper-case and
\* unknown codes
CodeArgs ==
    LangArgs \cup {PyStr(c) : c \in SUPPORTED_LANGUAGES}
        \cup {PyStr(<<"E", "N">>), PyStr(<<"z", "h", "-", "c", "n">>),
              PyStr(<<"x", "y", "z">>), PyStr(<<"e">>)}

ValidText(text) == IsStr(text) /\ strip(text.s) # <<>>
ValidLang(lang) == IsStr(lang) /\ strip(lang.s) # <<>>

----------------------------------------------------------------------------
(* The state machine *)

Init ==
    /\ op = "none"
    /\ args = <<>>
    /\ out = NotInvoked
    /\ detect_calls = <<>>
    /\ model_calls = <<>>
    /\ translate_calls = <<>>
    /\ backend_calls = <<>>
    /\ line_log = <<>>
    /\ extractors = <<>>
    /\ ctor_calls = <<>>
    /\ reg_log = <<>>
    /\ created = <<>>
    /\ printed = <<>>
    /\ extractor = NoObject
    /\ io_calls = <<>>
    /\ seed = None
    /\ profile = <<>>
    /\ detect_log = <<>>

\* a caller invokes detector.detect(text)
Detect ==
    /\ op = "none"
    /\ \E text \in TextArgs, m \in ModelOutcomes :
        LET r == detect(text, m)
        IN  /\ op' = "detect"
            /\ args' = <<text>>
            /\ out' = r.out
            /\ model_calls' = r.model_calls
            /\ UNCHANGED <<detect_calls, translate_calls, backend_calls,
                           line_log>>
    /\ UNCHANGED registryVars
    /\ UNCHANGED detectorVars
    /\ UNCHANGED extractorVars

\* a caller invokes translator.translate(text, source_lang, target_lang)
Translate ==
    /\ op = "none"
    /\ \E text \in TextArgs, source_lang \in LangArgs, target_lang \in LangArgs,
          b \in BackendOutcomes :
        LET r == translate(text, source_lang, target_lang, b)
        IN  /\ op' = "translate"
            /\ args' = <<text, source_lang, target_lang>>
            /\ out' = r.out
            /\ backend_calls' = r.backend_calls
            /\ UNCHANGED <<detect_calls, model_calls, translate_calls,
                           line_log>>
    /\ UNCHANGED registryVars
    /\ UNCHANGED detectorVars
    /\ UNCHANGED extractorVars

\* a caller invokes manager.auto_translate(text, target_lang)
AutoTranslate ==
    /\ op = "none"
    /\ \E text \in TextArgs, target_lang \in LangArgs, e \in Scenarios :
        LET r == auto_translate(text, target_lang, e.m, e.b)
        IN  /\ op' = "auto_translate"
            /\ args' = <<text, target_lang>>
            /\ out' = r.out
            /\ detect_calls' = r.detect_calls
            /\ model_calls' = r.model_calls
            /\ translate_calls' = r.translate_calls
            /\ backend_calls' = r.backend_calls
            /\ line_log' = r.line_log
    /\ UNCHANGED registryVars
    /\ UNCHANGED detectorVars
    /\ UNCHANGED extractorVars

\* a caller invokes manager.auto_translate_multilingual(text, target_lang)
AutoTranslateMultilingual ==
    /\ op = "none"
    /\ \E text \in TextArgs, target_lang \in LangArgs :
        \E r \in auto_translate_multilingual(text, target_lang) :
            /\ op' = "auto_translate_multilingual"
            /\ args' = <<text, target_lang>>
            /\ out' = r.out
            /\ detect_calls' = r.detect_calls
            /\ model_calls' = r.model_calls
            /\ translate_calls' = r.translate_calls
            /\ backend_calls' = r.backend_calls
            /\ line_log' = r.line_log
    /\ UNCHANGED registryVars
    /\ UNCHANGED detectorVars
    /\ UNCHANGED extractorVars

\* a caller invokes translator.supports_language(lang_code)
SupportsLanguage ==
    /\ op = "none"
    /\ \E lang_code \in CodeArgs :
        /\ op' = "supports_language"
        /\ args' = <<lang_code>>
        /\ out' = supports_language(lang_code)
    /\ UNCHANGED translationVars
    /\ UNCHANGED detectorVars
    /\ UNCHANGED registryVars
    /\ UNCHANGED extractorVars

NextTranslation ==
    \/ Detect
    \/ Translate
    \/ AutoTranslate
    \/ AutoTranslateMultilingual
    \/ SupportsLanguage

SpecTranslation == Init /\ [][NextTranslation]_vars

----------------------------------------------------------------------------
(* The registry's callers *)

Names ==
    {"Tesseract OCR (Local)", "Azure Document Intelligence (Cloud)",
     "nonexistent"}

Classes == {"TesseractExtractor", "AzureOCRExtractor"}

\* extractor_class(): a new object with identity id; TesseractExtractor()
\* only stores its arguments; AzureOCRExtractor() raises ValueError without
\* credentials and may fail while it builds its client
CtorOutcomes(cls, id) ==
    IF cls = "TesseractExtractor"
    THEN {Return([instance_of |-> cls, id |-> id])}
    ELSE {Return([instance_of |-> cls, id |-> id]),
          Raise(ValueError("Azure credentials not provided", <<>>, NoCause)),
          Raise(Exc("ClientError", "{0}", <<PyStr(<<"u", "r", "l">>)>>, NoCause))}

\* registry.register(name, extractor_class)
Register ==
    /\ Len(reg_log) < MaxRegs
    /\ \E name \in Names, extractor_class \in Classes :
        /\ extractors' = register(extractors, name, extractor_class)
        /\ reg_log' = Append(reg_log, [name |-> name, cls |-> extractor_class])
        /\ op' = "register"
        /\ args' = <<name, extractor_class>>
        /\ out' = Return(None)
        /\ ctor_calls' = <<>>
        /\ printed' = <<>>
    /\ UNCHANGED created
    /\ UNCHANGED translationVars
    /\ UNCHANGED detectorVars
    /\ UNCHANGED extractorVars

\* registry.get_available_extractors()
GetAvailableExtractors ==
    /\ op' = "get_available_extractors"
    /\ args' = <<>>
    /\ out' = get_available_extractors(extractors)
    /\ ctor_calls' = <<>>
    /\ printed' = <<>>
    /\ UNCHANGED <<extractors, reg_log, created>>
    /\ UNCHANGED translationVars
    /\ UNCHANGED detectorVars
    /\ UNCHANGED extractorVars

\* registry.create_extractor(name)
CreateExtractor ==
    /\ Len(created) < MaxCreates
    /\ \E name \in Names :
        \E c \in IF HasKey(extractors, name)
                 THEN CtorOutcomes(Lookup(extractors, name), Len(created) + 1)
                 ELSE {NotInvoked} :
            \E r \in {create_extractor(extractors, name, c)} :
                /\ op' = "create_extractor"
                /\ args' = <<name>>
                /\ out' = r.out
                /\ ctor_calls' = r.ctor_calls
                /\ printed' = r.printed
                /\ created' = IF r.out.k = "return"
                              THEN Append(created, r.out.v) ELSE created
                /\ extractors' = ExtractorsAfterCreate(extractors, name, c)
    /\ UNCHANGED reg_log
    /\ UNCHANGED translationVars
    /\ UNCHANGED detectorVars
    /\ UNCHANGED extractorVars

NextRegistry ==
    \/ Register
    \/ GetAvailableExtractors
    \/ CreateExtractor

SpecRegistry == Init /\ [][NextRegistry]_vars

----------------------------------------------------------------------------
(* The extractors' callers *)

MaxPages == 3      \* pages convert_from_path returns for one PDF

Dpis == {PyInt(300), PyInt(500)}
Langs == {PyStr(<<"e", "n", "g">>)}

\* constructor arguments and environment values for the key and for the
\* endpoint: absent, empty, present
KeyArgs == {None, PyStr(<<>>), PyStr(<<"k">>)}
EndpointArgs == {None, PyStr(<<>>), PyStr(<<"u">>)}
KeyEnvs == {None, PyStr(<<>>), PyStr(<<"e">>)}
EndpointEnvs == {None, PyStr(<<>>), PyStr(<<"v">>)}

ClientOutcomes ==
    {Return([cls |-> "DocumentIntelligenceClient"]),
     Raise(Exc("ClientError", "{0}", <<PyStr(<<"u", "r", "l">>)>>, NoCause))}

\* arguments of supports_format: None, non-strings, the extensions of both
\* sets in lower, upper and mixed case, and other strings
FormatArgs ==
    {None, PyInt(5), PyInt(0), PyStr(<<>>)}
        \cup {PyStr(f) : f \in AzureFormats}
        \cup {PyStr(<<"P", "D", "F">>), PyStr(<<"P", "n", "g">>),
              PyStr(<<"J", "P", "E", "G">>), PyStr(<<"j", "P", "g">>),
              PyStr(<<"B", "M", "P">>), PyStr(<<"T", "i", "f", "f">>),
              PyStr(<<"T", "I", "F">>)}
        \cup {PyStr(<<"t", "x", "t">>), PyStr(<<".", "p", "d", "f">>),
              PyStr(<<"p", "d", "f", " ">>), PyStr(<<"p", "d">>),
              PyStr(<<"d", "o", "c", "x">>)}

\* the files extract_text is asked to read, by name
FileNames ==
    {<<"a", ".", "p", "d", "f">>, <<"a", ".", "P", "D", "F">>,
     <<"a", ".", "p", "n", "g">>, <<"a", ".", "J", "p", "g">>,
     <<"a", ".", "j", "p", "e", "g">>, <<"a", ".", "b", "m", "p">>,
     <<"a", ".", "t", "i", "f">>, <<"a", ".", "t", "x", "t">>,
     <<"a">>, <<".", "p", "d", "f">>, <<"p", "d", "f", ".">>,
     <<"a", ".", "p", "d", "f", ".", "t", "x", "t">>,
     <<"a", ".", "t", "x", "t", ".", "p", "d", "f">>}

OcrTexts == {<<>>, <<"a">>, <<" ", "b", "\n">>}

OcrOutcomes ==
    {Return(t) : t \in OcrTexts}
        \cup {Raise(Exc("TesseractError", "{0}", <<PyStr(<<"o", "c", "r">>)>>,
                        NoCause))}

ConvertOutcomes ==
    {Return(n) : n \in 0..MaxPages}
        \cup {Raise(Exc("PDFPageCountError", "{0}",
                        <<PyStr(<<"p", "d", "f">>)>>, NoCause))}

ImageOpenOutcomes ==
    {Return([cls |-> "Image"]),
     Raise(Exc("UnidentifiedImageError", "{0}", <<PyStr(<<"i", "m", "g">>)>>,
               NoCause))}

\* what the rasterizer, Image.open and the OCR engine do for one call of
\* TesseractExtractor.extract_text
TesseractIo ==
    [convert : ConvertOutcomes, ocr : [1..MaxPages -> OcrOutcomes],
     open : ImageOpenOutcomes]

\* analysis results: no pages, no lines, lines on several pages
AzureResults ==
    {[pages |-> Missing], [pages |-> List(<<>>)],
     [pages |-> List(<<[lines |-> Missing]>>)],
     [pages |-> List(<<[lines |-> List(<< <<"a">> >>)], [lines |-> Missing],
                       [lines |-> List(<< <<"b">>, <<>>, <<"c">> >>)]>>)]}

HttpResponseError ==
    Exc("HttpResponseError", "{0}", <<PyStr(<<"n", "e", "t">>)>>, NoCause)

\* what open(), begin_analyze_document() and poller.result() do for one
\* call of AzureOCRExtractor.extract_text
AzureIo ==
    [open : {Return([cls |-> "file"]),
             Raise(Exc("PermissionError", "{0}", <<PyStr(<<"r", "b">>)>>,
                       NoCause))},
     begin : {Return([cls |-> "poller"]), Raise(HttpResponseError)},
     result : {Return(r) : r \in AzureResults} \cup {Raise(HttpResponseError)}]

\* an extractor keeps no mutable field after construction: one behaviour is
\* a construction followed by one call on the object built
Constructors == {"TesseractExtractor", "AzureOCRExtractor"}

\* a caller builds TesseractExtractor(dpi, lang)
ConstructTesseract ==
    /\ op = "none"
    /\ extractor = NoObject
    /\ \E dpi \in Dpis, lang \in Langs :
        \E r \in {TesseractInit(dpi, lang)} :
            /\ op' = "TesseractExtractor"
            /\ args' = <<dpi, lang>>
            /\ out' = r.out
            /\ io_calls' = r.io_calls
            /\ extractor' = r.out.v
    /\ UNCHANGED translationVars
    /\ UNCHANGED detectorVars
    /\ UNCHANGED registryVars

\* a caller builds AzureOCRExtractor(api_key, endpoint) in an environment
\* that holds env_key and env_endpoint
ConstructAzure ==
    /\ op = "none"
    /\ extractor = NoObject
    /\ \E api_key \in KeyArgs, endpoint \in EndpointArgs, env_key \in KeyEnvs,
          env_endpoint \in EndpointEnvs, client \in ClientOutcomes :
        \E r \in {AzureInit(api_key, endpoint,
                            [key |-> env_key, endpoint |-> env_endpoint],
                            client)} :
            /\ op' = "AzureOCRExtractor"
            /\ args' = <<api_key, endpoint, env_key, env_endpoint>>
            /\ out' = r.out
            /\ io_calls' = r.io_calls
            /\ extractor' = IF r.out.k = "return" THEN r.out.v ELSE NoObject
    /\ UNCHANGED translationVars
    /\ UNCHANGED detectorVars
    /\ UNCHANGED registryVars

\* a caller invokes extractor.supports_format(file_format)
SupportsFormat ==
    /\ op \in Constructors
    /\ extractor # NoObject
    /\ \E file_format \in FormatArgs :
        /\ op' = "supports_format"
        /\ args' = <<file_format>>
        /\ out' = supports_format(extractor, file_format)
        /\ io_calls' = <<>>
    /\ UNCHANGED extractor
    /\ UNCHANGED translationVars
    /\ UNCHANGED detectorVars
    /\ UNCHANGED registryVars

\* a caller invokes extract_text(name) on a TesseractExtractor
TesseractExtract ==
    /\ op \in Constructors
    /\ extractor.cls = "TesseractExtractor"
    /\ \E name \in FileNames, exists \in BOOLEAN, io \in TesseractIo :
        \E r \in {TesseractExtractText(extractor, name, exists, io)} :
            /\ op' = "extract_text"
            /\ args' = <<PyStr(name), exists>>
            /\ out' = r.out
            /\ io_calls' = r.io_calls
    /\ UNCHANGED extractor
    /\ UNCHANGED translationVars
    /\ UNCHANGED detectorVars
    /\ UNCHANGED registryVars

\* a caller invokes extract_text(name) on an AzureOCRExtractor
AzureExtract ==
    /\ op \in Constructors
    /\ extractor.cls = "AzureOCRExtractor"
    /\ \E name \in FileNames, exists \in BOOLEAN, io \in AzureIo :
        \E r \in {AzureExtractText(extractor, name, exists, io)} :
            /\ op' = "extract_text"
            /\ args' = <<PyStr(name), exists>>
            /\ out' = r.out
            /\ io_calls' = r.io_calls
    /\ UNCHANGED extractor
    /\ UNCHANGED translationVars
    /\ UNCHANGED detectorVars
    /\ UNCHANGED registryVars

NextExtractor ==
    \/ ConstructTesseract
    \/ ConstructAzure
    \/ SupportsFormat
    \/ TesseractExtract
    \/ AzureExtract

SpecExtractor == Init /\ [][NextExtractor]_vars

----------------------------------------------------------------------------
(* The command line: run_cli *)

\* setup_extractors(): the registry after its two registrations
setup_extractors ==
    register(register(<<>>, "Tesseract OCR (Local)", "TesseractExtractor"),
             "Azure Document Intelligence (Cloud)", "AzureOCRExtractor")

\* the register calls of setup_extractors(), in call order
SetupRegistrations ==
    <<[name |-> "Tesseract OCR (Local)", cls |-> "TesseractExtractor"],
      [name |-> "Azure Document Intelligence (Cloud)",
       cls |-> "AzureOCRExtractor"]>>

KeyboardInterrupt == Exc("KeyboardInterrupt", "", <<>>, NoCause)

\* sys.exit(code)
SystemExit(code) == Exc("SystemExit", "{0}", <<PyInt(code)>>, NoCause)

\* tk.Tk() without a display
TclError ==
    Exc("TclError", "{0}", <<PyStr(<<"n", "o", " ", "d", "i", "s", "p", "l",
                                      "a", "y">>)>>, NoCause)

\* a prompt whose input stream is closed
EOFError == Exc("EOFError", "", <<>>, NoCause)

PermissionError ==
    Exc("PermissionError", "{0}", <<PyStr(<<"d", "e", "n", "i", "e", "d">>)>>,
        NoCause)

\* a write on a full disk
OSError == Exc("OSError", "{0}", <<PyStr(<<"f", "u", "l", "l">>)>>, NoCause)

\* `except Exception` matches every class but those that derive from
\* BaseException only
IsException(e) == e.cls \notin {"KeyboardInterrupt", "SystemExit"}

\* the extensions the file dialog filters on
allowed_extensions ==
    {<<".">> \o pdf, <<".">> \o png, <<".">> \o jpg, <<".">> \o jpeg}

\* the files the user can pick: the dialog shows those that end with an
\* allowed extension, a name typed in its entry need not
CliFiles ==
    {<<"a", ".", "p", "d", "f">>, <<"a", ".", "p", "n", "g">>,
     <<".", "p", "d", "f">>,
     <<"a", ".", "b", "m", "p">>, <<"a", ".", "t", "x", "t">>}

\* pick_file(allowed_extensions): '' when the dialog is cancelled, the path
\* chosen, or an exception of tkinter
PickOutcomes ==
    {Return(PyStr(<<>>))}
        \cup {Return(PyStr(f)) : f \in CliFiles}
        \cup {Raise(TclError), Raise(KeyboardInterrupt)}

\* a registry name as the str questionary returns (the name is one symbol)
Choice(name) == PyStr(<<name>>)

\* select_extractor(registry): None when the prompt is cancelled, or one of
\* the names get_available_extractors lists
SelectOutcomes(registry) ==
    {Return(None)}
        \cup {Return(Choice(get_available_extractors(registry).v[i])) :
                  i \in 1..Len(registry)}
        \cup {Raise(EOFError), Raise(KeyboardInterrupt)}

\* extractor_class() with no arguments, in some environment
CliCtorOutcomes(cls) ==
    IF cls = "TesseractExtractor"
    THEN {TesseractInit(PyInt(300), PyStr(<<"e", "n", "g">>)).out}
    ELSE {AzureInit(None, None, [key |-> k, endpoint |-> v], c).out :
              k \in KeyEnvs, v \in EndpointEnvs, c \in ClientOutcomes}

\* extractor.extract_text(input_file): whatever the extractor can do with
\* that file, or an interruption while it works
ExtractOutcomes(self, name) ==
    (IF self.cls = "TesseractExtractor"
     THEN {TesseractExtractText(self, name, exists, io).out :
               exists \in BOOLEAN, io \in TesseractIo}
     ELSE {AzureExtractText(self, name, exists, io).out :
               exists \in BOOLEAN, io \in AzureIo})
        \cup {Raise(KeyboardInterrupt)}

\* select_target_language(): None when cancelled, a code of the list, or a
\* code typed by the user (at least one character)
LanguageOutcomes ==
    {Return(None), Return(PyStr(en)), Return(PyStr(es)), Return(PyStr(<<" ">>)),
     Raise(EOFError), Raise(KeyboardInterrupt)}

\* TranslationManager().auto_translate(extracted_text, target_lang)
TranslateOutcomes(text, target_lang) ==
    {auto_translate(text, target_lang, e.m, e.b).out : e \in Scenarios}
        \cup {Raise(KeyboardInterrupt)}

\* select_output_file(input_file): None when cancelled, or the text typed
OutputOutcomes ==
    {Return(None), Return(PyStr(<<>>)), Return(PyStr(<<"o">>)),
     Raise(EOFError), Raise(KeyboardInterrupt)}

\* open(output_file, 'w', encoding='utf-8')
OpenOutcomes == {Return([cls |-> "file"]), Raise(PermissionError)}

\* f.write(translated_text)
WriteOutcomes == {Return(None), Raise(OSError), Raise(KeyboardInterrupt)}

\* a run so far: the lines printed, the calls made and the registry
Say(t, msg, fargs) == [t EXCEPT !.printed = Append(@, Line(msg, fargs))]
Called(t, fn, a, o) == [t EXCEPT !.io_calls = Append(@, IoCall(fn, a, o))]

\* the end of a run: its outcome, what it printed and what it called
Done(t, o) ==
    [out |-> o, printed |-> t.printed, io_calls |-> t.io_calls,
     registry |-> t.registry]

\* an exception leaves the body of the outer try:
\* except KeyboardInterrupt: print("\n\nExiting..."); sys.exit(0)
Unhandled(t, o) ==
    IF o.e.cls = "KeyboardInterrupt"
    THEN Done(Say(t, "\n\nExiting...", <<>>), Raise(SystemExit(0)))
    ELSE Done(t, o)

\* an inner `except Exception as e: print(f"...{e}"); return`
Handled(t, o, msg) ==
    IF IsException(o.e)
    THEN Done(Say(t, msg, <<StrOf(o.e)>>), Return(None))
    ELSE Unhandled(t, o)

\* the six lines printed after a successful save
Success(t, input_file, output_file) ==
    Say(Say(Say(Say(Say(Say(Say(t, "File saved successfully", <<>>),
                            "\n============", <<>>),
                        " Process Complete", <<>>),
                    "============", <<>>),
                "\nInput:  {0}", <<input_file>>),
            "Output: {0}", <<output_file>>),
        "", <<>>)

\* a save step that prints the success lines whatever the write did
SaveStep_banner(t, input_file, output_file, translated_text) ==
    UNION {
        LET opened == Called(Say(t, "\nSaving to: {0}", <<output_file>>),
                             "open", <<output_file, "w">>, f)
        IN  IF f.k = "raise"
            THEN {Handled(opened, f, "\nFailed to save file: {0}")}
            ELSE {Done(Success(Called(opened, "write", <<translated_text>>, w),
                               input_file, output_file),
                       Return(None)) :
                  w \in WriteOutcomes} :
        f \in OpenOutcomes}

\* step 8: with open(output_file, 'w') as f: f.write(translated_text)
SaveStep(t, input_file, output_file, translated_text) ==
    UNION {
        LET opened == Called(Say(t, "\nSaving to: {0}", <<output_file>>),
                             "open", <<output_file, "w">>, f)
        IN  IF f.k = "raise"
            THEN {Handled(opened, f, "\nFailed to save file: {0}")}
            ELSE {LET written == Called(opened, "write", <<translated_text>>, w)
                  IN  IF w.k = "raise"
                      THEN Handled(written, w, "\nFailed to save file: {0}")
                      ELSE Done(Success(written, input_file, output_file),
                                Return(None)) :
                  w \in WriteOutcomes} :
        f \in OpenOutcomes}

\* step 7: output_file = select_output_file(input_file)
OutputStep(t, input_file, translated_text) ==
    UNION {
        LET asked == Called(t, "select_output_file", <<input_file>>, n)
        IN  IF n.k = "raise"
            THEN {Unhandled(asked, n)}
            ELSE IF ~Truthy(n.v)
            THEN {Done(Say(asked, "\nNo output file specified. Exiting...",
                           <<>>),
                       Return(None))}
            ELSE SaveStep(asked, input_file, n.v, translated_text) :
        n \in OutputOutcomes}

\* a handler of translation failures that ends the run
TranslateExcept_abort(t, input_file, extracted_text, x) ==
    {Handled(t, x, "\nTranslation failed: {0}")}

\* except Exception as e around auto_translate: two lines are printed and
\* translated_text = extracted_text
TranslateExcept(t, input_file, extracted_text, x) ==
    IF IsException(x.e)
    THEN OutputStep(Say(Say(t, "\nTranslation failed: {0}", <<StrOf(x.e)>>),
                        "Saving extracted text only...", <<>>),
                    input_file, extracted_text)
    ELSE {Unhandled(t, x)}

\* step 6: translated_text = manager.auto_translate(extracted_text,
\* target_lang)
TranslateStep(t, input_file, extracted_text, target_lang) ==
    UNION {
        LET called == Called(Say(t, "\nTranslating to {0}...",
                                 <<PyStr(upper(target_lang.s))>>),
                             "auto_translate", <<extracted_text, target_lang>>,
                             x)
        IN  IF x.k = "raise"
            THEN TranslateExcept(called, input_file, extracted_text, x)
            ELSE OutputStep(Say(called, "Translation complete", <<>>),
                            input_file, x.v) :
        x \in TranslateOutcomes(extracted_text, target_lang)}

\* target_lang = select_target_language(); `if not target_lang` skips the
\* translation
LanguageStep(t, input_file, extracted_text) ==
    UNION {
        LET asked == Called(t, "select_target_language", <<>>, l)
        IN  IF l.k = "raise"
            THEN {Unhandled(asked, l)}
            ELSE IF ~Truthy(l.v)
            THEN OutputStep(Say(asked,
                                "\nNo language selected. Skipping translation.",
                                <<>>),
                            input_file, extracted_text)
            ELSE TranslateStep(asked, input_file, extracted_text, l.v) :
        l \in LanguageOutcomes}

\* a handler of extraction failures that goes on with an empty text
ExtractExceptCli_continue(t, input_file, x) ==
    LanguageStep(Say(t, "\nExtraction failed: {0}", <<StrOf(x.e)>>),
                 input_file, PyStr(<<>>))

\* except Exception as e around extract_text: print and return
ExtractExceptCli(t, input_file, x) ==
    {Handled(t, x, "\nExtraction failed: {0}")}

\* step 3: extracted_text = extractor.extract_text(input_file)
ExtractStep(t, input_file, self) ==
    UNION {
        LET called == Called(Say(t, "\nExtracting text from document...", <<>>),
                             "extract_text", <<self, input_file>>, x)
        IN  IF x.k = "raise"
            THEN ExtractExceptCli(called, input_file, x)
            ELSE LanguageStep(called, input_file, x.v) :
        x \in ExtractOutcomes(self, input_file.s)}

\* extractor = registry.create_extractor(extractor_name), inside
\* try / except (ValueError, Exception)
CreateStep(t, input_file, registry, extractor_name) ==
    UNION {
        LET r == create_extractor(registry, extractor_name, c)
            called == Called([t EXCEPT !.printed = @ \o r.printed,
                                       !.registry = ExtractorsAfterCreate(
                                           registry, extractor_name, c)],
                             "create_extractor", <<extractor_name>>, r.out)
        IN  IF r.out.k = "raise"
            THEN {Handled(called, r.out, "\nFailed to initialize extractor: {0}")}
            ELSE ExtractStep(called, input_file, r.out.v) :
        c \in CliCtorOutcomes(Lookup(registry, extractor_name))}

\* step 2: extractor_name = select_extractor(registry)
SelectStep(t, input_file, registry) ==
    UNION {
        LET asked == Called(Say(t, "\nSelected: {0}", <<input_file>>),
                            "select_extractor",
                            <<get_available_extractors(t.registry).v>>, s)
        IN  IF s.k = "raise"
            THEN {Unhandled(asked, s)}
            ELSE IF ~Truthy(s.v)
            THEN {Done(Say(asked, "\nNo extractor selected. Exiting.", <<>>),
                       Return(None))}
            ELSE CreateStep(Say(asked, "\nUsing: {0}", <<s.v>>), input_file,
                            registry, s.v.s[1]) :
        s \in SelectOutcomes(registry)}

\* the three lines of the welcome message
Welcome ==
    [printed |-> <<Line("\n============", <<>>),
                   Line("  PDF Extract and Translate", <<>>),
                   Line("============\n", <<>>)>>,
     io_calls |-> <<>>,
     registry |-> setup_extractors]

\* run_cli(): every run it can make, one per choice of what the user, the
\* files, the OCR engines, the cloud and the translation services do
run_cli ==
    UNION {
        LET picked == Called(Welcome, "pick_file", <<>>, p)
        IN  IF p.k = "raise"
            THEN {Unhandled(picked, p)}
            ELSE IF ~Truthy(p.v)
            THEN {Done(Say(picked, "\nNo file selected. Exiting.", <<>>),
                       Return(None))}
            ELSE SelectStep(picked, p.v, setup_extractors) :
        p \in PickOutcomes}

\* the user starts the program
RunCli ==
    /\ op = "none"
    /\ \E r \in run_cli :
        /\ op' = "run_cli"
        /\ args' = <<>>
        /\ out' = r.out
        /\ printed' = r.printed
        /\ io_calls' = r.io_calls
        /\ extractors' = r.registry
    /\ reg_log' = SetupRegistrations
    /\ UNCHANGED <<ctor_calls, created, extractor>>
    /\ UNCHANGED translationVars
    /\ UNCHANGED detectorVars

NextCli == RunCli

SpecCli == Init /\ [][NextCli]_vars

----------------------------------------------------------------------------
(* The program: one call of a translation component, one call on an       *)
(* extractor after its construction, a sequence of calls on a registry,   *)
(* or one run of the command line                                         *)

NextProgram ==
    \/ NextTranslation
    \/ NextExtractor
    \/ NextCli
    \/ op \in {"none", "register", "get_available_extractors",
               "create_extractor"} /\ NextRegistry

SpecProgram == Init /\ [][NextProgram]_vars

----------------------------------------------------------------------------
(* One process that imports the detector and calls detect repeatedly *)

\* a module that leaves the seed of langdetect as the library sets it
DetectorFactorySeed_unset == None

\* DetectorFactory.seed = 0, executed when language_detector is imported
DetectorFactorySeed == PyInt(0)

\* the texts detect is called with: invalid ones, and texts that differ
\* only by surrounding whitespace
DetectArgs ==
    {None, PyStr(<<>>), PyStr(<<"a">>), PyStr(<<" ", "a">>), PyStr(<<"b">>)}

\* the texts that reach the model
ModelTexts == {strip(t.s) : t \in {a \in DetectArgs : ValidText(a)}}

\* langdetect's detect(text): the library seeds its random generator with
\* DetectorFactory.seed before every classification, so with a seed its
\* answer is a function of the text (the profile of this process); with
\* seed None the generator is seeded from the clock and any answer of the
\* model is possible
ModelAnswers(text) ==
    IF seed = None THEN ModelOutcomes ELSE {profile[text]}

\* the interpreter imports language_detector: the seed is assigned; the
\* trained model this process will use is one of the possible ones
ImportDetector ==
    /\ op = "none"
    /\ seed' = DetectorFactorySeed
    /\ \E f \in [ModelTexts -> ModelOutcomes] : profile' = f
    /\ op' = "import"
    /\ UNCHANGED <<args, out, detect_log>>
    /\ UNCHANGED translationVars
    /\ UNCHANGED registryVars
    /\ UNCHANGED extractorVars

\* one more detector.detect(text) in the same process
DetectInProcess ==
    /\ op \in {"import", "detect"}
    /\ profile # <<>>
    /\ Len(detect_log) < MaxDetects
    /\ \E text \in DetectArgs :
        \E m \in IF ValidText(text) THEN ModelAnswers(strip(text.s))
                 ELSE {NotInvoked} :
            \E r \in {detect(text, m)} :
                /\ op' = "detect"
                /\ args' = <<text>>
                /\ out' = r.out
                /\ model_calls' = r.model_calls
                /\ detect_log' = Append(detect_log,
                                        [text |-> text, out |-> r.out])
    /\ UNCHANGED <<seed, profile>>
    /\ UNCHANGED <<detect_calls, translate_calls, backend_calls, line_log>>
    /\ UNCHANGED registryVars
    /\ UNCHANGED extractorVars

NextDetector ==
    \/ ImportDetector
    \/ DetectInProcess

SpecDetector == Init /\ [][NextDetector]_vars

----------------------------------------------------------------------------
(* Error kinds, by condition *)

ValidationMessages ==
    {"Text cannot be None", "Text must be a string, got {0}",
     "Text cannot be empty or contain only whitespace",
     "Target language cannot be None",
     "Target language must be a string, got {0}",
     "Target language cannot be empty",
     "Target language must be a non-empty string",
     "Source language code must be a non-empty string",
     "Target language code must be a non-empty string"}

IsInvalidInput(o) ==
    /\ o.k = "raise"
    /\ o.e.cls = "ValueError"
    /\ o.e.msg \in ValidationMessages
    /\ o.e.cause = NoCause

\* o raises DetectionFailed wrapping the detector's failure e
IsDetectionFailed(o, e) ==
    /\ o.k = "raise"
    /\ o.e.cls = "ValueError"
    /\ o.e.msg = "Failed to detect source language: {0}"
    /\ o.e.fargs = <<StrOf(e)>>
    /\ o.e.cause = e

IsTranslationFailed(o) ==
    /\ o.k = "raise"
    /\ o.e.cls = "ValueError"
    /\ o.e.msg = "Failed to translate from {0} to {1}: {2}"

IsInvalidLanguage(o) ==
    /\ o.k = "raise"
    /\ o.e.cls = "ValueError"
    /\ o.e.msg = "Invalid language code. Source: {0}, Target: {1}. Error: {2}"

----------------------------------------------------------------------------
(* C1: auto_translate is fail-fast on detection *)

\* auto_translate passed validation and its call to the detector failed
DetectorFailed ==
    /\ op = "auto_translate"
    /\ detect_calls # <<>>
    /\ detect_calls[1].out.k = "raise"

\* C1 as claimed: whenever the detector fails, with any error,
\* auto_translate raises DetectionFailed wrapping that failure, returns no
\* text and never invokes the translator.
C1_AnyDetectorErrorWrapped ==
    DetectorFailed =>
        /\ IsDetectionFailed(out, detect_calls[1].out.e)
        /\ translate_calls = <<>>
        /\ backend_calls = <<>>

\* C1 amended: whenever the detector fails, auto_translate raises, returns
\* no text and never invokes the translator; a ValueError of the detector
\* is wrapped as DetectionFailed with the detector's error as its cause,
\* any other exception of the detector reaches the caller unchanged.
C1_FailFastOnDetection ==
    DetectorFailed =>
        /\ out.k = "raise"
        /\ translate_calls = <<>>
        /\ backend_calls = <<>>
        /\ IF detect_calls[1].out.e.cls = "ValueError"
           THEN IsDetectionFailed(out, detect_calls[1].out.e)
           ELSE out = detect_calls[1].out

C1_Witness ==
    /\ DetectorFailed
    /\ detect_calls[1].out.e.cls = "ValueError"
    /\ IsDetectionFailed(out, detect_calls[1].out.e)

----------------------------------------------------------------------------
(* C2: a failing translator makes auto_translate raise TranslationFailed *)

\* detection succeeded and the call to the translator failed
TranslatorFailed ==
    /\ op = "auto_translate"
    /\ translate_calls # <<>>
    /\ translate_calls[1].out.k = "raise"

\* C2: after a successful detection, if translator.translate fails for any
\* reason, auto_translate raises TranslationFailed; the message holds the
\* detected source code and the target code, the cause is the translator's
\* error, and no text is returned.
C2_TranslationFailedNamesCodes ==
    TranslatorFailed =>
        /\ IsTranslationFailed(out)
        /\ out.e.fargs[1] = detect_calls[1].out.v
        /\ out.e.fargs[2] = args[2]
        /\ Contains(out.e.fargs[2].s, translate_calls[1].target_lang.s)
        /\ out.e.fargs[3] = StrOf(translate_calls[1].out.e)
        /\ out.e.cause = translate_calls[1].out.e

\* the translator failed in its own validation (an empty detected code)
\* in one run, in the backend in another; this one is the backend
C2_Witness ==
    /\ TranslatorFailed
    /\ backend_calls # <<>>
    /\ backend_calls[1].out.k = "raise"
    /\ IsTranslationFailed(out)

----------------------------------------------------------------------------
(* C3: auto_translate_multilingual is best-effort *)

\* auto_translate_multilingual was called with arguments that pass validation
MultilingualValid ==
    /\ op = "auto_translate_multilingual"
    /\ ValidText(args[1])
    /\ ValidLang(args[2])

\* the detection or the translation of the line of entry l failed
LineFailed(l) ==
    \/ l.detect_calls # <<>> /\ l.detect_calls[1].out.k = "raise"
    \/ l.translate_calls # <<>> /\ l.translate_calls[1].out.k = "raise"

----------------------------------------------------------------------------
(* C4: auto_translate_multilingual preserves line structure *)

\* the lines of the output: its pieces between the "\n" that join wrote
RECURSIVE OutputLinesFrom(_, _, _)
OutputLinesFrom(s, i, cur) ==
    IF i > Len(s) THEN <<cur>>
    ELSE IF s[i] = "\n" THEN <<cur>> \o OutputLinesFrom(s, i + 1, <<>>)
    ELSE OutputLinesFrom(s, i + 1, Append(cur, s[i]))

OutputLines(s) == OutputLinesFrom(s, 1, <<>>)

IsBlank(line) == strip(line) = <<>>

\* C4 as claimed: for every valid input and every translator result, the
\* output has as many lines as the input, and an output line is blank
\* exactly where the input line is blank.
C4_LineStructurePreserved ==
    (MultilingualValid /\ out.k = "return") =>
        LET input_lines == splitlines(args[1].s)
            output_lines == OutputLines(out.v.s)
        IN  /\ Len(output_lines) = Len(input_lines)
            /\ \A i \in 1..Len(input_lines) :
                IsBlank(output_lines[i]) <=> IsBlank(input_lines[i])

----------------------------------------------------------------------------
(* C5: blank text never reaches a backend *)

TextOperations ==
    {"detect", "translate", "auto_translate", "auto_translate_multilingual"}

\* C5: detect, translate, auto_translate and auto_translate_multilingual
\* fail with InvalidInput, without a call to a collaborator, when text is
\* None, not a string, empty or whitespace-only; and every text that the
\* detection model or the translation backend receives is non-blank.
C5_BlankTextNeverReachesBackend ==
    /\ (op \in TextOperations /\ ~ValidText(args[1])) =>
           /\ IsInvalidInput(out)
           /\ detect_calls = <<>> /\ model_calls = <<>>
           /\ translate_calls = <<>> /\ backend_calls = <<>>
    /\ \A i \in 1..Len(model_calls) : ~IsBlank(model_calls[i].text)
    /\ \A i \in 1..Len(backend_calls) : ~IsBlank(backend_calls[i].text)

\* a multilingual call whose text has a blank line and a line surrounded
\* by whitespace, and which reached the model and the backend
C5_Witness ==
    /\ op = "auto_translate_multilingual"
    /\ \E i \in 1..Len(line_log) : IsBlank(line_log[i].input)
    /\ \E i \in 1..Len(line_log) :
        /\ ~IsBlank(line_log[i].input)
        /\ line_log[i].input # strip(line_log[i].input)
    /\ model_calls # <<>>
    /\ backend_calls # <<>>

\* a whitespace-only text rejected by translate
C5_WitnessRejected ==
    /\ op = "translate"
    /\ IsStr(args[1]) /\ args[1].s # <<>> /\ IsBlank(args[1].s)
    /\ IsInvalidInput(out)

----------------------------------------------------------------------------
(* C6: language codes are validated before dispatch *)

\* the language-code arguments of the last call
CodeArguments ==
    CASE op = "translate" -> {args[2], args[3]}
      [] op \in {"auto_translate", "auto_translate_multilingual"} -> {args[2]}
      [] OTHER -> {}

\* C6 as claimed: a language code that is None, not a string, empty or
\* whitespace-only is rejected with InvalidInput before the detector or
\* the translation backend is invoked.
C6_BlankCodeRejected ==
    (\E code \in CodeArguments : ~ValidLang(code)) =>
        /\ IsInvalidInput(out)
        /\ detect_calls = <<>> /\ model_calls = <<>>
        /\ translate_calls = <<>> /\ backend_calls = <<>>

----------------------------------------------------------------------------
(* C7: translate re-wraps language errors of the backend, only those *)

\* the message mentions "lang", in any letter case
MentionsLanguage(msg) ==
    \E i \in 1..(Len(msg) - 3) :
        /\ msg[i] \in {"l", "L"}
        /\ msg[i + 1] \in {"a", "A"}
        /\ msg[i + 2] \in {"n", "N"}
        /\ msg[i + 3] \in {"g", "G"}

\* translate reached the backend and the backend raised
BackendFailed ==
    /\ op = "translate"
    /\ backend_calls # <<>>
    /\ backend_calls[1].out.k = "raise"

\* C7: when the backend raises, translate raises InvalidLanguage, with both
\* codes in the message and the backend's error as cause, if and only if
\* the backend's message mentions a language keyword; any other backend
\* error reaches the caller unchanged.  No backend error is swallowed.
C7_LanguageErrorsRewrapped ==
    BackendFailed =>
        LET e == backend_calls[1].out.e
        IN  /\ out.k = "raise"
            /\ IF MentionsLanguage(MessageText(e))
               THEN /\ IsInvalidLanguage(out)
                    /\ out.e.fargs = <<args[2], args[3], StrOf(e)>>
                    /\ out.e.cause = e
               ELSE out = Raise(e)

\* a backend error whose message has the keyword in mixed case
C7_Witness ==
    /\ BackendFailed
    /\ MessageText(backend_calls[1].out.e) = <<"L", "a", "n", "g">>
    /\ IsInvalidLanguage(out)

----------------------------------------------------------------------------
(* C8: supports_language is a membership test on the allow-list *)

EqualIgnoringCase(a, b) == lower(a) = lower(b)

\* C8 as claimed: supports_language returns true for every code of the
\* allow-list, false for None, for a non-string and for a code that is not
\* in the allow-list in any letter case, and never raises.
C8_AllowListMembership ==
    op = "supports_language" =>
        /\ out.k = "return"
        /\ (IsStr(args[1]) /\ args[1].s \in SUPPORTED_LANGUAGES)
               => out.v = TRUE
        /\ ~IsStr(args[1]) => out.v = FALSE
        /\ (IsStr(args[1]) /\ \A c \in SUPPORTED_LANGUAGES :
                                 ~EqualIgnoringCase(c, args[1].s))
               => out.v = FALSE

----------------------------------------------------------------------------
(* C9: create_extractor rejects unregistered names *)

RegisteredNames == {reg_log[i].name : i \in 1..Len(reg_log)}

\* C9: create_extractor(name) fails with UnknownExtractor for every name
\* that is not registered, and then no constructor is invoked.
C9_UnknownExtractorRejected ==
    (op = "create_extractor" /\ args[1] \notin RegisteredNames) =>
        /\ out = Raise(ValueError("Unknown extractor: {0}", <<args[1]>>, NoCause))
        /\ ctor_calls = <<>>

\* an unknown name asked of a registry that holds other extractors
C9_Witness ==
    /\ op = "create_extractor"
    /\ args[1] \notin RegisteredNames
    /\ RegisteredNames # {}
    /\ out.k = "raise"

----------------------------------------------------------------------------
(* C10: get_available_extractors lists names in registration order *)

\* the names of a log, each at the place of its first registration
RECURSIVE FirstRegistrations(_, _)
FirstRegistrations(log, seen) ==
    IF log = <<>> THEN <<>>
    ELSE IF Head(log).name \in seen
    THEN FirstRegistrations(Tail(log), seen)
    ELSE <<Head(log).name>>
             \o FirstRegistrations(Tail(log), seen \cup {Head(log).name})

\* C10: after any sequence of register calls, get_available_extractors
\* returns every registered name exactly once, in the order of first
\* registration.
C10_RegistrationOrder ==
    op = "get_available_extractors" =>
        out = Return(FirstRegistrations(reg_log, {}))

\* a name registered again after another name was registered
C10_Witness ==
    /\ op = "get_available_extractors"
    /\ Len(reg_log) = 3
    /\ reg_log[1].name = reg_log[3].name
    /\ reg_log[2].name # reg_log[1].name
    /\ out.k = "return"
    /\ Len(out.v) = 2

----------------------------------------------------------------------------
(* C11: registration is last-writer-wins, instantiation is lazy *)

\* the class most recently registered under name
LastRegistered(name) ==
    reg_log[CHOOSE i \in 1..Len(reg_log) :
                /\ reg_log[i].name = name
                /\ \A j \in (i + 1)..Len(reg_log) : reg_log[j].name # name].cls

\* C11: register never invokes a constructor; create_extractor(name) runs
\* the constructor of the class most recently registered under name, once,
\* and what it returns is an instance of that class that no earlier call
\* returned.
C11_LastWriterWinsLazy ==
    /\ op = "register" => ctor_calls = <<>>
    /\ (op = "create_extractor" /\ args[1] \in RegisteredNames) =>
        /\ Len(ctor_calls) = 1
        /\ ctor_calls[1].cls = LastRegistered(args[1])
        /\ out.k = "return" =>
            /\ out.v.instance_of = LastRegistered(args[1])
            /\ created # <<>>
            /\ out.v = created[Len(created)]
    /\ \A i, j \in 1..Len(created) : i # j => created[i] # created[j]

\* a second instance, built for a name that was registered again with
\* another class
C11_Witness ==
    /\ op = "create_extractor"
    /\ out.k = "return"
    /\ Len(created) = 2
    /\ created[1].instance_of = created[2].instance_of
    /\ \E i, j \in 1..Len(reg_log) :
        /\ i < j
        /\ reg_log[i].name = args[1]
        /\ reg_log[j].name = args[1]
        /\ reg_log[i].cls # reg_log[j].cls

----------------------------------------------------------------------------
(* C12: a failing constructor makes create_extractor fail *)

\* the constructor of the registered class ran and raised
CtorFailed ==
    /\ op = "create_extractor"
    /\ ctor_calls # <<>>
    /\ ctor_calls[1].out.k = "raise"

\* C12: when the constructor of the registered class raises, create_extractor
\* raises that same exception: it returns nothing, with or without the hint
\* printed.
C12_InitializationErrorPropagates ==
    CtorFailed =>
        /\ out = ctor_calls[1].out
        /\ out.k = "raise"

\* missing credentials: the hint is printed and the ValueError goes on
C12_Witness ==
    /\ CtorFailed
    /\ ctor_calls[1].out.e.cls = "ValueError"
    /\ printed # <<>>
    /\ out.k = "raise"

\* another constructor failure: nothing is printed and the error goes on
C12_WitnessNoHint ==
    /\ CtorFailed
    /\ ctor_calls[1].out.e.cls # "ValueError"
    /\ printed = <<>>
    /\ out.k = "raise"

----------------------------------------------------------------------------
(* C13: supports_format is a case-insensitive membership test *)

\* the extension set of the extractor under test
SupportedExtensions ==
    IF extractor.cls = "TesseractExtractor"
    THEN {pdf, png, jpg, jpeg}
    ELSE {pdf, png, jpg, jpeg, bmp, tiff, tif}

\* s is a supported extension written in some letter case
IsSupportedExtension(s) ==
    \E f \in SupportedExtensions : EqualIgnoringCase(f, s)

\* C13: for both extractors supports_format never raises and returns true
\* exactly for the strings that are a supported extension in some letter
\* case: false for every other string, for None and for a non-string.
C13_SupportsFormat ==
    op = "supports_format" =>
        /\ out.k = "return"
        /\ out.v = (IsStr(args[1]) /\ IsSupportedExtension(args[1].s))

\* a supported extension that is not written in lower case
C13_Witness ==
    /\ op = "supports_format"
    /\ extractor.cls = "AzureOCRExtractor"
    /\ IsStr(args[1])
    /\ args[1].s \notin SupportedExtensions
    /\ IsSupportedExtension(args[1].s)
    /\ out = Return(TRUE)

----------------------------------------------------------------------------
(* C14: extract_text rejects missing files and unsupported formats *)

\* the extension of a file name: what follows its last dot, nothing when
\* it has no dot
Extension(name) ==
    IF \E i \in 1..Len(name) : name[i] = "."
    THEN SubSeq(name, LastDot(name) + 1, Len(name))
    ELSE <<>>

\* C14: for both extractors extract_text raises FileNotFoundError for every
\* path that does not exist and the unsupported-format ValueError for
\* every existing path whose extension is outside the supported set; in
\* both cases no rasterizer, OCR, file or cloud call is made.
C14_NotFoundAndUnsupported ==
    op = "extract_text" =>
        /\ ~args[2] =>
            /\ out = Raise(FileNotFoundError(args[1].s))
            /\ io_calls = <<>>
        /\ (args[2] /\ ~IsSupportedExtension(Extension(args[1].s))) =>
            /\ out.k = "raise"
            /\ out.e.cls = "ValueError"
            /\ out.e.msg = "Unsupported file format: {0}. Supported formats: {1}"
            /\ io_calls = <<>>

\* an existing image of a format only the cloud extractor reads, given to
\* the local extractor
C14_Witness ==
    /\ op = "extract_text"
    /\ extractor.cls = "TesseractExtractor"
    /\ args[2]
    /\ Extension(args[1].s) = bmp
    /\ out.k = "raise"
    /\ out.e.cls = "ValueError"
    /\ io_calls = <<>>

\* a file that does not exist, with a supported extension
C14_WitnessNotFound ==
    /\ op = "extract_text"
    /\ ~args[2]
    /\ Extension(args[1].s) = pdf
    /\ out.k = "raise"
    /\ out.e.cls = "FileNotFoundError"

----------------------------------------------------------------------------
(* C15: lower-level failures become a generic extraction failure *)

ExtractionMessages ==
    {"Failed to extract text from PDF: {0}",
     "Failed to extract text from image: {0}",
     "Failed to extract text with Azure Document Intelligence: {0}"}

\* a collaborator failed during the last extract_text
CollaboratorFailed ==
    /\ op = "extract_text"
    /\ \E i \in 1..Len(io_calls) : io_calls[i].out.k = "raise"

\* C15: when the rasterizer, the OCR engine on any page, the file read or
\* a cloud call fails during extract_text, extract_text raises an Exception
\* with an extraction message whose cause is that failure, the failing call
\* is the last call made, and no text is returned.
C15_ExtractionFailureWrapsCause ==
    CollaboratorFailed =>
        /\ out.k = "raise"
        /\ out.e.cls = "Exception"
        /\ out.e.msg \in ExtractionMessages
        /\ io_calls[Len(io_calls)].out.k = "raise"
        /\ out.e.cause = io_calls[Len(io_calls)].out.e
        /\ out.e.fargs = <<StrOf(io_calls[Len(io_calls)].out.e)>>
        /\ \A i \in 1..(Len(io_calls) - 1) : io_calls[i].out.k = "return"

\* a PDF whose first page was read with text and whose second page makes
\* the OCR engine fail
C15_Witness ==
    /\ CollaboratorFailed
    /\ extractor.cls = "TesseractExtractor"
    /\ Len(io_calls) = 3
    /\ io_calls[2].fn = "image_to_string"
    /\ io_calls[2].out = Return(<<"a">>)
    /\ io_calls[3].out.k = "raise"
    /\ out.k = "raise"

\* a cloud job that fails after the file was opened and submitted
C15_WitnessCloud ==
    /\ CollaboratorFailed
    /\ extractor.cls = "AzureOCRExtractor"
    /\ Len(io_calls) = 3
    /\ io_calls[3].fn = "poller.result"
    /\ out.k = "raise"

----------------------------------------------------------------------------
(* C16: credential resolution of the cloud extractor *)

\* a value that holds a credential: a string that is not empty
IsCredential(v) == IsStr(v) /\ v.s # <<>>

\* the constructor argument when one is given, otherwise the environment
Resolved(arg, env) == IF IsCredential(arg) THEN arg ELSE env

\* C16: AzureOCRExtractor(api_key, endpoint) uses, for the key and for the
\* endpoint independently, the argument when one is given and the
\* environment value otherwise; when the key or the endpoint is then
\* unavailable it raises the missing-credentials ValueError, builds no
\* client and leaves no extractor; and a file is only ever opened by a
\* cloud extractor that holds a key and an endpoint.
C16_CredentialResolution ==
    /\ op = "AzureOCRExtractor" =>
        IF /\ IsCredential(Resolved(args[1], args[3]))
           /\ IsCredential(Resolved(args[2], args[4]))
        THEN /\ Len(io_calls) = 1
             /\ io_calls[1].fn = "DocumentIntelligenceClient"
             /\ io_calls[1].args = <<Resolved(args[2], args[4]),
                                     Resolved(args[1], args[3])>>
             /\ out.k = "return" =>
                 /\ out.v.api_key = Resolved(args[1], args[3])
                 /\ out.v.endpoint = Resolved(args[2], args[4])
                 /\ extractor = out.v
        ELSE /\ out = Raise(ValueError("Azure credentials not provided", <<>>,
                                       NoCause))
             /\ io_calls = <<>>
             /\ extractor = NoObject
    /\ (\E i \in 1..Len(io_calls) : io_calls[i].fn = "open") =>
        /\ extractor.cls = "AzureOCRExtractor"
        /\ IsCredential(extractor.api_key)
        /\ IsCredential(extractor.endpoint)

\* the key given as an argument although the environment holds one, the
\* endpoint taken from the environment
C16_Witness ==
    /\ op = "AzureOCRExtractor"
    /\ args[1] = PyStr(<<"k">>)
    /\ args[3] = PyStr(<<"e">>)
    /\ args[2] = None
    /\ args[4] = PyStr(<<"v">>)
    /\ out.k = "return"
    /\ out.v.api_key = PyStr(<<"k">>)
    /\ out.v.endpoint = PyStr(<<"v">>)

\* no argument and no environment value for the key
C16_WitnessMissing ==
    /\ op = "AzureOCRExtractor"
    /\ args[1] = None
    /\ args[3] = None
    /\ out.k = "raise"
    /\ io_calls = <<>>

----------------------------------------------------------------------------
(* C20: detect tells InvalidInput and DetectionFailed apart *)

\* the error detect raises when the model cannot classify the text: a
\* ValueError with the detection message, raised from the model's error
IsCouldNotDetect(o) ==
    /\ o.k = "raise"
    /\ o.e.cls = "ValueError"
    /\ o.e.msg = "Could not detect language: {0}"
    /\ o.e.cause.cls = "LangDetectException"

\* the model was reached and could not classify the text
ModelCouldNotClassify ==
    /\ model_calls # <<>>
    /\ model_calls[1].out.k = "raise"
    /\ model_calls[1].out.e.cls = "LangDetectException"

\* C20: detect raises InvalidInput exactly when text is None, not a string
\* or blank (and then the model is not reached), raises DetectionFailed
\* exactly when the model cannot classify a non-blank text, and the two
\* errors differ in what a caller can observe: their message and their
\* cause.
C20_DetectErrorKindsDistinct ==
    op = "detect" =>
        /\ IsInvalidInput(out) <=> ~ValidText(args[1])
        /\ ~ValidText(args[1]) => model_calls = <<>>
        /\ IsCouldNotDetect(out) <=> (ValidText(args[1]) /\ ModelCouldNotClassify)
        /\ IsCouldNotDetect(out) => out.e.cause = model_calls[1].out.e
        /\ ~(IsInvalidInput(out) /\ IsCouldNotDetect(out))

\* a non-blank text that the model cannot classify
C20_Witness ==
    /\ op = "detect"
    /\ ValidText(args[1])
    /\ ModelCouldNotClassify
    /\ IsCouldNotDetect(out)
    /\ ~IsInvalidInput(out)

\* a blank text
C20_WitnessInvalid ==
    /\ op = "detect"
    /\ IsStr(args[1])
    /\ args[1].s # <<>>
    /\ IsInvalidInput(out)
    /\ ~IsCouldNotDetect(out)

----------------------------------------------------------------------------
(* C17: the output file is touched only after a successful extraction *)

\* the calls of the last run to fn, in call order
CallsTo(fn) == SelectSeq(io_calls, LAMBDA c : c.fn = fn)

\* fn was called and returned
Succeeded(fn) == \E i \in 1..Len(io_calls) :
    io_calls[i].fn = fn /\ io_calls[i].out.k = "return"

\* fn was called and raised
Failed(fn) == \E i \in 1..Len(io_calls) :
    io_calls[i].fn = fn /\ io_calls[i].out.k = "raise"

\* the prompt fn returned a choice: not None, not ''
Chose(fn) == \E i \in 1..Len(io_calls) :
    /\ io_calls[i].fn = fn
    /\ io_calls[i].out.k = "return"
    /\ Truthy(io_calls[i].out.v)

\* the run opened the output file or wrote to it
OutputTouched == CallsTo("open") # <<>> \/ CallsTo("write") # <<>>

\* C17: in every run of run_cli the output file is opened for writing only
\* if a file was selected, an extractor was selected and created, and the
\* extraction returned; when one of these steps fails or is cancelled, the
\* output file is neither opened nor written
C17_OutputOnlyAfterExtraction ==
    op = "run_cli" =>
        /\ OutputTouched =>
            /\ Chose("pick_file")
            /\ Chose("select_extractor")
            /\ Succeeded("create_extractor")
            /\ Succeeded("extract_text")
        /\ CallsTo("write") # <<>> => Succeeded("open")
        /\ Len(CallsTo("open")) <= 1

\* a run that opened the output file
C17_Witness ==
    /\ op = "run_cli"
    /\ Succeeded("open")
    /\ Succeeded("extract_text")

\* a run whose extraction failed: it ends without touching the output
C17_WitnessFailed ==
    /\ op = "run_cli"
    /\ Failed("extract_text")
    /\ ~OutputTouched
    /\ out = Return(None)

\* a run whose extractor could not be created
C17_WitnessNotCreated ==
    /\ op = "run_cli"
    /\ Failed("create_extractor")
    /\ ~OutputTouched

----------------------------------------------------------------------------
(* C18: a translation that fails or is skipped saves the extracted text *)

\* the text handed to f.write
Written == CallsTo("write")[1].args[1]

ExtractedText == CallsTo("extract_text")[1].out.v

\* what auto_translate did in the last run
Translation == CallsTo("auto_translate")[1].out

\* the translation was skipped, or it raised an exception
TranslationSkippedOrFailed ==
    /\ Succeeded("select_target_language")
    /\ \/ CallsTo("auto_translate") = <<>>
       \/ Failed("auto_translate") /\ IsException(Translation.e)

\* C18: in every run that reaches the save step the text written is the
\* result of auto_translate when a target language was chosen and the
\* translation returned, and the extracted text otherwise; a translation
\* that is skipped or fails (also because the extracted text is blank)
\* goes on to the output-file step with the extracted text
C18_TranslationFailureDegrades ==
    op = "run_cli" =>
        /\ CallsTo("auto_translate") # <<>> <=> Chose("select_target_language")
        /\ CallsTo("auto_translate") # <<>> =>
               CallsTo("auto_translate")[1].args =
                   <<ExtractedText, CallsTo("select_target_language")[1].out.v>>
        /\ CallsTo("write") # <<>> =>
               Written = IF Succeeded("auto_translate")
                         THEN Translation.v
                         ELSE ExtractedText
        /\ TranslationSkippedOrFailed =>
               /\ CallsTo("select_output_file") # <<>>
               /\ Succeeded("open") => Written = ExtractedText

\* a run whose translation failed and whose extracted text was saved
C18_Witness ==
    /\ op = "run_cli"
    /\ Failed("auto_translate")
    /\ Succeeded("write")
    /\ Written = ExtractedText
    /\ out = Return(None)

\* a blank extracted text: auto_translate raises InvalidInput, the blank
\* text is saved
C18_WitnessBlank ==
    /\ op = "run_cli"
    /\ Failed("auto_translate")
    /\ IsInvalidInput(Translation)
    /\ strip(ExtractedText.s) = <<>>
    /\ Succeeded("write")

\* a run that saved a translation different from the extracted text
C18_WitnessTranslated ==
    /\ op = "run_cli"
    /\ Succeeded("auto_translate")
    /\ Succeeded("write")
    /\ Written = Translation.v
    /\ Written # ExtractedText

\* a run that skipped the translation and saved the extracted text
C18_WitnessSkipped ==
    /\ op = "run_cli"
    /\ Succeeded("select_target_language")
    /\ CallsTo("auto_translate") = <<>>
    /\ Succeeded("write")

----------------------------------------------------------------------------
(* C19: how run_cli ends *)

\* some step of the run was interrupted
WasInterrupted == \E i \in 1..Len(io_calls) :
    io_calls[i].out.k = "raise" /\ io_calls[i].out.e.cls = "KeyboardInterrupt"

\* some step of the run raised an exception other than an interruption
StepFailed == \E i \in 1..Len(io_calls) :
    io_calls[i].out.k = "raise" /\ IsException(io_calls[i].out.e)

\* C19, as stated: an interruption ends the process with exit status 0,
\* every other failure of a step ends run_cli by returning normally after a
\* printed message, and no exception propagates out of run_cli
C19_NoExceptionPropagates ==
    op = "run_cli" =>
        /\ WasInterrupted => out = Raise(SystemExit(0))
        /\ out.k = "raise" => out = Raise(SystemExit(0)) /\ WasInterrupted
        /\ StepFailed /\ ~WasInterrupted => out = Return(None)

\* the failure of a step that no inner try encloses leaves run_cli
C19_Propagated ==
    /\ op = "run_cli"
    /\ out.k = "raise"
    /\ out.e.cls # "SystemExit"

----------------------------------------------------------------------------
(* C21: no operation retries *)

\* the OCR calls of the last call for page i
OcrCallsFor(i) ==
    SelectSeq(io_calls, LAMBDA c : c.fn = "image_to_string" /\ c.args[1] = i)

\* every call in calls but the last one returned
OnlyLastMayFail(calls) ==
    \A i \in 1..(Len(calls) - 1) : calls[i].out.k = "return"

\* C21: no operation retries.  One detect call asks the model at most
\* once; one translate call asks the backend at most once; one
\* auto_translate call invokes the detector at most once and the
\* translator at most once; one auto_translate_multilingual call makes, for
\* each line, at most one detection and at most one translation, and none
\* for a blank line; one extract_text call runs OCR at most once per page
\* and stops at the first call that fails; one run of run_cli calls
\* extract_text and auto_translate at most once each
C21_NoRetry ==
    /\ op \in {"detect", "translate", "auto_translate"} =>
        /\ Len(detect_calls) <= 1
        /\ Len(translate_calls) <= 1
        /\ Len(model_calls) <= 1
        /\ Len(backend_calls) <= 1
    /\ op = "auto_translate_multilingual" =>
        /\ \A i \in 1..Len(line_log) :
            /\ Len(line_log[i].detect_calls) <= 1
            /\ Len(line_log[i].translate_calls) <= 1
            /\ strip(line_log[i].input) = <<>> =>
                   line_log[i].detect_calls = <<>>
            /\ line_log[i].detect_calls = <<>> =>
                   line_log[i].translate_calls = <<>>
        /\ Len(model_calls) = Len(detect_calls)
        /\ Len(backend_calls) <= Len(translate_calls)
    /\ op = "extract_text" =>
        /\ \A i \in 1..(MaxPages + 1) : Len(OcrCallsFor(i)) <= 1
        /\ \A fn \in {"convert_from_path", "Image.open", "open",
                      "begin_analyze_document", "poller.result"} :
               Len(SelectSeq(io_calls, LAMBDA c : c.fn = fn)) <= 1
        /\ OnlyLastMayFail(io_calls)
    /\ op = "run_cli" =>
        /\ Len(SelectSeq(io_calls, LAMBDA c : c.fn = "extract_text")) <= 1
        /\ Len(SelectSeq(io_calls, LAMBDA c : c.fn = "auto_translate")) <= 1
        /\ Len(SelectSeq(io_calls, LAMBDA c : c.fn = "create_extractor")) <= 1

\* auto_translate after a detection that failed: the model was asked once
C21_Witness ==
    /\ op = "auto_translate"
    /\ Len(detect_calls) = 1
    /\ detect_calls[1].out.k = "raise"
    /\ Len(model_calls) = 1
    /\ translate_calls = <<>>

\* OCR fails on the first page of a document: one OCR call was made
C21_WitnessOcr ==
    /\ op = "extract_text"
    /\ Len(io_calls) = 2
    /\ io_calls[1].fn = "convert_from_path"
    /\ io_calls[1].out.v > 1
    /\ io_calls[2].fn = "image_to_string"
    /\ io_calls[2].out.k = "raise"

\* a run of run_cli whose translation failed, after one call
C21_WitnessCli ==
    /\ op = "run_cli"
    /\ Len(SelectSeq(io_calls, LAMBDA c : c.fn = "auto_translate")) = 1
    /\ \E i \in 1..Len(io_calls) :
           io_calls[i].fn = "auto_translate" /\ io_calls[i].out.k = "raise"

\* a text of two lines whose first line could not be detected: one
\* detection for each line
C21_WitnessLines ==
    /\ op = "auto_translate_multilingual"
    /\ Len(line_log) = 2
    /\ Len(line_log[1].detect_calls) = 1
    /\ line_log[1].detect_calls[1].out.k = "raise"
    /\ Len(line_log[2].detect_calls) = 1

----------------------------------------------------------------------------
(* C22: detection is deterministic within one process *)

C22_WitnessError ==
    /\ Len(detect_log) >= 2
    /\ detect_log[1].text = detect_log[2].text
    /\ IsCouldNotDetect(detect_log[1].out)
    /\ detect_log[2].out = detect_log[1].out

----------------------------------------------------------------------------
(* C23: each non-blank line is detected and translated on its own *)

RECURSIVE Concat(_)
Concat(seqs) == IF seqs = <<>> THEN <<>> ELSE Head(seqs) \o Concat(Tail(seqs))

\* the line of entry l, trimmed, as the str passed to the detector
TrimmedInput(l) == PyStr(strip(l.input))

\* C23: in auto_translate_multilingual every non-blank line is processed on
\* its own and in input order.  The detector is called once, with that line
\* (trimmed) and nothing else.  When it answers the trimmed target_lang the
\* translator is not called and the output line is the input line; when it
\* answers another code the translator is called once with that line only,
\* that code as source and the trimmed target_lang, and the output line is
\* what the translator returned.  The calls of the whole operation are
\* those of its lines, in line order.
C23_LinesProcessedIndependently ==
    MultilingualValid =>
        /\ \A i \in 1..Len(line_log) :
            LET l == line_log[i]
            IN  strip(l.input) # <<>> =>
                /\ Len(l.detect_calls) = 1
                /\ l.detect_calls[1].text = TrimmedInput(l)
                /\ l.detect_calls[1].out.k = "raise" => l.translate_calls = <<>>
                /\ l.detect_calls[1].out.k = "return" =>
                    IF l.detect_calls[1].out.v = PyStr(strip(args[2].s))
                    THEN /\ l.translate_calls = <<>>
                         /\ l.output = l.input
                    ELSE /\ Len(l.translate_calls) = 1
                         /\ l.translate_calls[1].text = TrimmedInput(l)
                         /\ l.translate_calls[1].source_lang =
                                l.detect_calls[1].out.v
                         /\ l.translate_calls[1].target_lang =
                                PyStr(strip(args[2].s))
                         /\ l.translate_calls[1].out.k = "return" =>
                                l.output = l.translate_calls[1].out.v.s
        /\ detect_calls =
               Concat([i \in 1..Len(line_log) |-> line_log[i].detect_calls])
        /\ translate_calls =
               Concat([i \in 1..Len(line_log) |-> line_log[i].translate_calls])

\* two lines: the first is already in the target language and is kept, the
\* second is in another language and is translated
C23_Witness ==
    /\ MultilingualValid
    /\ Len(line_log) = 2
    /\ Len(line_log[1].detect_calls) = 1
    /\ line_log[1].detect_calls[1].out = Return(PyStr(strip(args[2].s)))
    /\ line_log[1].translate_calls = <<>>
    /\ Len(line_log[2].translate_calls) = 1
    /\ line_log[2].translate_calls[1].out.k = "return"
    /\ line_log[2].output # line_log[2].input
    /\ line_log[2].translate_calls[1].text # line_log[1].detect_calls[1].text

----------------------------------------------------------------------------
(* C24: auto_translate detects, translates once, returns the result *)

\* auto_translate was called with arguments that pass its validation
AutoTranslateValid ==
    /\ op = "auto_translate"
    /\ ValidText(args[1])
    /\ ValidLang(args[2])

\* C24: for every valid input auto_translate calls the detector once, on
\* the trimmed text; when the detector answers a code it calls the
\* translator exactly once with the trimmed text, that code unmodified as
\* source_lang and the trimmed target_lang, and what the translator returns
\* is returned as it is; the translator is called also when the code is the
\* target language
C24_DetectThenTranslateVerbatim ==
    AutoTranslateValid =>
        /\ Len(detect_calls) = 1
        /\ detect_calls[1].text = PyStr(strip(args[1].s))
        /\ detect_calls[1].out.k = "return" =>
            /\ Len(translate_calls) = 1
            /\ translate_calls[1].text = PyStr(strip(args[1].s))
            /\ translate_calls[1].source_lang = detect_calls[1].out.v
            /\ translate_calls[1].target_lang = PyStr(strip(args[2].s))
            /\ translate_calls[1].out.k = "return" =>
                   out = translate_calls[1].out

\* a padded text detected as the (padded) target language: the translator
\* is called all the same and its result, another text, is returned
C24_Witness ==
    /\ AutoTranslateValid
    /\ args[1].s # strip(args[1].s)
    /\ args[2].s # strip(args[2].s)
    /\ detect_calls[1].out = Return(PyStr(strip(args[2].s)))
    /\ Len(translate_calls) = 1
    /\ out = translate_calls[1].out
    /\ out.k = "return"
    /\ out.v # PyStr(strip(args[1].s))

----------------------------------------------------------------------------
(* C25: the registry is read-only after startup *)

\* the mapping is the one the register calls made so far define: the names
\* in order of first registration, each with the class registered last
RegistryMatchesLog ==
    /\ Keys(extractors) = FirstRegistrations(reg_log, {})
    /\ \A i \in 1..Len(extractors) :
           extractors[i].cls = LastRegistered(extractors[i].name)

\* C25: get_available_extractors and create_extractor, whether they succeed
\* or fail, leave the mapping from names to classes as the register calls
\* made it; in a run of run_cli the only register calls are the two of
\* setup_extractors, so the menu select_extractor shows and the mapping at
\* the end of the run are those of the setup
C25_RegistryReadOnly ==
    /\ RegistryMatchesLog
    /\ op = "run_cli" =>
        /\ reg_log = SetupRegistrations
        /\ \A i \in 1..Len(io_calls) :
               io_calls[i].fn = "select_extractor" =>
                   io_calls[i].args[1] =
                       FirstRegistrations(SetupRegistrations, {})

\* a create_extractor whose constructor failed, on a registry of two names
C25_Witness ==
    /\ op = "create_extractor"
    /\ Len(extractors) = 2
    /\ Len(ctor_calls) = 1
    /\ ctor_calls[1].out.k = "raise"
    /\ out.k = "raise"

\* a run of run_cli whose extractor could not be created
C25_WitnessCli ==
    /\ op = "run_cli"
    /\ Failed("create_extractor")
    /\ Len(extractors) = 2

\* a create_extractor for a name that is not registered
C25_WitnessUnknown ==
    /\ op = "create_extractor"
    /\ extractors # <<>>
    /\ ctor_calls = <<>>
    /\ out.k = "raise"

----------------------------------------------------------------------------
(* C26: pages are read in order, empty pages are dropped *)

\* extract_text of the local extractor rasterized a document into pages
PagesConverted ==
    /\ op = "extract_text"
    /\ extractor.cls = "TesseractExtractor"
    /\ io_calls # <<>>
    /\ io_calls[1].fn = "convert_from_path"
    /\ io_calls[1].out.k = "return"

\* the text of the pages from page i on: each page trimmed, the empty ones
\* left out, a newline between two pages that remain
RECURSIVE DocumentText(_, _)
DocumentText(pages, i) ==
    IF i > Len(pages) THEN <<>>
    ELSE LET rest == DocumentText(pages, i + 1)
         IN  IF strip(pages[i]) = <<>> THEN rest
             ELSE IF \A j \in (i + 1)..Len(pages) : strip(pages[j]) = <<>>
             THEN strip(pages[i])
             ELSE strip(pages[i]) \o <<"\n">> \o rest

\* C26: for a document of several pages the local extractor runs OCR on
\* page 1, page 2, ... in that order, once each; when every OCR call
\* returns, the result is the trimmed texts of the pages that are not empty
\* after trimming, in document order, joined by one newline, and the empty
\* string when no page remains
C26_PagesInOrderEmptyDropped ==
    PagesConverted =>
        /\ \A i \in 2..Len(io_calls) :
            /\ io_calls[i].fn = "image_to_string"
            /\ io_calls[i].args[1] = i - 1
        /\ Len(io_calls) - 1 <= io_calls[1].out.v
        /\ out.k = "return" =>
            /\ Len(io_calls) - 1 = io_calls[1].out.v
            /\ out.v = PyStr(DocumentText(
                   [i \in 1..(Len(io_calls) - 1) |-> io_calls[i + 1].out.v], 1))

\* three pages: text, nothing, text
C26_Witness ==
    /\ PagesConverted
    /\ io_calls[1].out.v = 3
    /\ out.k = "return"
    /\ Len(io_calls) = 4
    /\ strip(io_calls[2].out.v) # <<>>
    /\ strip(io_calls[3].out.v) = <<>>
    /\ strip(io_calls[4].out.v) # <<>>
    /\ io_calls[4].out.v # strip(io_calls[4].out.v)
    /\ out.v.s = strip(io_calls[2].out.v) \o <<"\n">> \o strip(io_calls[4].out.v)

\* every page is empty: the result is the empty string
C26_WitnessAllEmpty ==
    /\ PagesConverted
    /\ io_calls[1].out.v = 2
    /\ out = Return(PyStr(<<>>))

----------------------------------------------------------------------------
(* C27: the steps of a CLI run happen in a fixed order *)

\* the steps of run_cli, in program order
StepOrder ==
    <<"pick_file", "select_extractor", "create_extractor", "extract_text",
      "select_target_language", "auto_translate", "select_output_file",
      "open", "write">>

\* the place of step fn in the order
Rank(fn) == CHOOSE r \in 1..Len(StepOrder) : StepOrder[r] = fn

\* the step of call c is over and the run goes on: a prompt gave a choice,
\* a call returned, the language prompt returned (None skips the
\* translation), the translation failed with an exception (the run goes on
\* with the extracted text)
GoesOn(c) ==
    CASE c.fn \in {"pick_file", "select_extractor", "select_output_file"} ->
             c.out.k = "return" /\ Truthy(c.out.v)
      [] c.fn = "auto_translate" ->
             c.out.k = "return" \/ IsException(c.out.e)
      [] OTHER -> c.out.k = "return"

\* the lines printed after a successful save
BannerPrinted ==
    \E i \in 1..Len(printed) :
        printed[i].msg \in {"File saved successfully", " Process Complete"}

\* C27: in every run of run_cli the steps happen in the order select input
\* file, select extractor, create extractor, extract, select target
\* language, translate, select output file name, open and write the file,
\* each at most once; a step is started only when every earlier step was
\* carried out and ended without aborting the run (the translation alone is
\* left out, exactly when no language was chosen); the success lines are
\* printed exactly when the file was written
C27_StepsInOrder ==
    op = "run_cli" =>
        /\ \A i, j \in 1..Len(io_calls) :
               i < j => /\ Rank(io_calls[i].fn) < Rank(io_calls[j].fn)
                        /\ GoesOn(io_calls[i])
        /\ io_calls # <<>> /\ io_calls[1].fn = "pick_file"
        /\ \A j \in 2..Len(io_calls) :
               \/ Rank(io_calls[j].fn) = Rank(io_calls[j - 1].fn) + 1
               \/ /\ io_calls[j - 1].fn = "select_target_language"
                  /\ ~Truthy(io_calls[j - 1].out.v)
                  /\ io_calls[j].fn = "select_output_file"
        /\ \A j \in 1..Len(io_calls) :
               io_calls[j].fn = "auto_translate" =>
                   Truthy(io_calls[j - 1].out.v)
        /\ BannerPrinted <=> Succeeded("write")

\* a complete run: all nine steps, then the success lines
C27_Witness ==
    /\ op = "run_cli"
    /\ Len(io_calls) = Len(StepOrder)
    /\ \A i \in 1..Len(io_calls) : io_calls[i].out.k = "return"
    /\ BannerPrinted
    /\ out = Return(None)

\* a run whose write failed: no success line
C27_WitnessWriteFailed ==
    /\ op = "run_cli"
    /\ Failed("write")
    /\ ~BannerPrinted

\* a run without translation that wrote the file
C27_WitnessSkipped ==
    /\ op = "run_cli"
    /\ Len(io_calls) = Len(StepOrder) - 1
    /\ Succeeded("write")

----------------------------------------------------------------------------
(* C28: a translated line loses its indentation, other lines keep theirs *)

\* the translator returned a translation for the line of entry l
LineTranslated(l) ==
    l.translate_calls # <<>> /\ l.translate_calls[1].out.k = "return"

\* C28: in auto_translate_multilingual the translator receives each line
\* without its leading and trailing whitespace, and the output line of a
\* translated line is what the translator returned, with nothing of the
\* input line's indentation or trailing spaces put back; a blank line, a
\* line already in the target language and a line whose detection or
\* translation failed are emitted as they were in the input, whitespace
\* included
C28_WhitespaceOfLines ==
    MultilingualValid =>
        \A i \in 1..Len(line_log) :
            LET l == line_log[i]
            IN  /\ \A k \in 1..Len(l.translate_calls) :
                       l.translate_calls[k].text.s = strip(l.input)
                /\ IF LineTranslated(l)
                   THEN l.output = l.translate_calls[1].out.v.s
                   ELSE l.output = l.input

\* an indented line with a trailing space that was translated: the output
\* line is the translation, without that whitespace
C28_Witness ==
    /\ MultilingualValid
    /\ \E i \in 1..Len(line_log) :
        /\ LineTranslated(line_log[i])
        /\ Head(line_log[i].input) = " "
        /\ line_log[i].input[Len(line_log[i].input)] = " "
        /\ line_log[i].translate_calls[1].text.s # line_log[i].input
        /\ line_log[i].output # <<>>
        /\ Head(line_log[i].output) # " "

\* an indented line already in the target language, and a line of one
\* space: both are emitted as they are
C28_WitnessKept ==
    /\ MultilingualValid
    /\ Len(line_log) = 2
    /\ line_log[1].input # strip(line_log[1].input)
    /\ line_log[1].detect_calls # <<>>
    /\ line_log[1].detect_calls[1].out.k = "return"
    /\ line_log[1].translate_calls = <<>>
    /\ line_log[1].output = line_log[1].input
    /\ line_log[2].input = <<" ">>
    /\ line_log[2].output = <<" ">>

\* an indented line whose translation failed is emitted with its
\* indentation
C28_WitnessFallback ==
    /\ MultilingualValid
    /\ \E i \in 1..Len(line_log) :
        /\ line_log[i].translate_calls # <<>>
        /\ line_log[i].translate_calls[1].out.k = "raise"
        /\ Head(line_log[i].input) = " "
        /\ line_log[i].output = line_log[i].input

----------------------------------------------------------------------------
(* C29: when no line is translated the result is the input, normalised *)

\* s with every "\r\n" and every "\r" written as "\n"
RECURSIVE NormalizedSeparators(_)
NormalizedSeparators(s) ==
    IF s = <<>> THEN <<>>
    ELSE IF Head(s) = "\r" /\ Len(s) >= 2 /\ s[2] = "\n"
    THEN <<"\n">> \o NormalizedSeparators(SubSeq(s, 3, Len(s)))
    ELSE IF Head(s) = "\r"
    THEN <<"\n">> \o NormalizedSeparators(Tail(s))
    ELSE <<Head(s)>> \o NormalizedSeparators(Tail(s))

EndsWithTerminator(s) == s # <<>> /\ s[Len(s)] \in {"\n", "\r"}

\* s without the line terminator it ends with, if it ends with one
WithoutLastTerminator(s) ==
    IF s # <<>> /\ s[Len(s)] = "\n" THEN SubSeq(s, 1, Len(s) - 1) ELSE s

UsesOnlyLf(s) == \A i \in 1..Len(s) : s[i] # "\r"

\* every non-blank line was already in the target language, or its
\* detection or translation failed: the translator returned nothing
NoLineTranslated ==
    /\ MultilingualValid
    /\ \A i \in 1..Len(line_log) : ~LineTranslated(line_log[i])

\* C29: when every non-blank line of a valid input is passed through or
\* falls back, auto_translate_multilingual returns the lines of the input
\* joined by single "\n": the input with its separators normalised to "\n"
\* and without the terminator it ends with, which is the input itself
\* exactly when the input has no other separator than "\n" and does not end
\* with a line terminator
C29_UntranslatedIsNormalizedInput ==
    NoLineTranslated =>
        /\ out = Return(PyStr(join(splitlines(args[1].s))))
        /\ out.v.s = WithoutLastTerminator(NormalizedSeparators(args[1].s))
        /\ out.v = args[1] <=>
               UsesOnlyLf(args[1].s) /\ ~EndsWithTerminator(args[1].s)

\* two lines separated by "\n", one passed through and one whose detection
\* failed: the result is the input
C29_Witness ==
    /\ NoLineTranslated
    /\ Len(line_log) = 2
    /\ line_log[1].detect_calls # <<>>
    /\ line_log[1].detect_calls[1].out.k = "return"
    /\ line_log[2].detect_calls # <<>>
    /\ line_log[2].detect_calls[1].out.k = "raise"
    /\ out.v = args[1]

\* an input with "\r\n" between its lines and a terminator at its end: the
\* result differs from it by both
C29_WitnessNormalized ==
    /\ NoLineTranslated
    /\ args[1].s = <<"a", "\r", "\n", "\n">>
    /\ out.v.s = <<"a", "\n">>

\* an input that ends with "\n" only loses it
C29_WitnessTerminator ==
    /\ NoLineTranslated
    /\ UsesOnlyLf(args[1].s)
    /\ EndsWithTerminator(args[1].s)
    /\ \E i \in 1..Len(line_log) :
        /\ line_log[i].translate_calls # <<>>
        /\ line_log[i].translate_calls[1].out.k = "raise"
    /\ out.v.s \o <<"\n">> = args[1].s

----------------------------------------------------------------------------
(* C30: the files the dialog offers and the formats the extractors read *)

\* SUPPORTED_FORMATS of a registered class
RegisteredFormats(cls) ==
    IF cls = "TesseractExtractor" THEN TesseractFormats ELSE AzureFormats

EndsWith(name, e) ==
    /\ Len(name) >= Len(e)
    /\ SubSeq(name, Len(name) - Len(e) + 1, Len(name)) = e

\* the file name matches the filter of the dialog: it ends with one of the
\* allowed extensions
MatchesFilter(name) == \E e \in allowed_extensions : EndsWith(name, e)

IsUnsupportedFormat(o) ==
    /\ o.k = "raise"
    /\ o.e.cls = "ValueError"
    /\ o.e.msg = "Unsupported file format: {0}. Supported formats: {1}"

\* the calls of extract_text with a file of the given kind
ExtractCallsOn(Kind(_)) ==
    {j \in 1..Len(io_calls) :
        io_calls[j].fn = "extract_text" /\ Kind(io_calls[j].args[2].s)}

\* every extension the dialog offers is a supported format of every
\* extractor setup_extractors registers
C30_OfferedExtensionsSupported ==
    \A e \in allowed_extensions :
        \A i \in 1..Len(setup_extractors) :
            lstrip_dots(e) \in RegisteredFormats(setup_extractors[i].cls)

\* C30: every extension the file dialog offers (.pdf, .png, .jpg, .jpeg) is
\* a supported format of every extractor registered by setup_extractors,
\* so for a picked file that matches the filter of the dialog extract_text
\* never fails with the unsupported-format error, whichever extractor the
\* user selected
C30_PickedFileNeverUnsupported ==
    /\ C30_OfferedExtensionsSupported
    /\ op = "run_cli" =>
           \A j \in ExtractCallsOn(MatchesFilter) :
               ~IsUnsupportedFormat(io_calls[j].out)

\* the file name has a stem, and its suffix is an allowed extension
StemAndAllowedSuffix(name) == lower(suffix(name)) \in allowed_extensions

\* what holds: a picked file with a stem before an allowed extension is
\* never rejected as an unsupported format
C30_StemmedFileNeverUnsupported ==
    /\ C30_OfferedExtensionsSupported
    /\ op = "run_cli" =>
           \A j \in ExtractCallsOn(StemAndAllowedSuffix) :
               ~IsUnsupportedFormat(io_calls[j].out)

\* an image picked through the filter and read by the cloud extractor
C30_Witness ==
    /\ op = "run_cli"
    /\ \E j \in ExtractCallsOn(StemAndAllowedSuffix) :
        /\ io_calls[j].args[1].cls = "AzureOCRExtractor"
        /\ io_calls[j].args[2].s = <<"a", ".", "p", "n", "g">>
        /\ io_calls[j].out.k = "return"

\* a file named .pdf matches the filter and has no suffix: it is rejected
C30_WitnessNoStem ==
    /\ op = "run_cli"
    /\ \E j \in ExtractCallsOn(MatchesFilter) :
        /\ io_calls[j].args[2].s = <<".", "p", "d", "f">>
        /\ IsUnsupportedFormat(io_calls[j].out)
        /\ io_calls[j].out.e.fargs[1] = PyStr(<<>>)
    /\ out = Return(None)

====
